---- MODULE Spec2Model ----
(***************************************************************************)
(* Durable interaction patterns of the Soma Python SDK                     *)
(* (trysoma_sdk/patterns.py: chat and workflow) over a durable context     *)
(* (run / awakeable / key-value slot), and the durable MCP client wrapper  *)
(* (trysoma_sdk/mcp.py).                                                   *)
(***************************************************************************)
EXTENDS Integers, Sequences, FiniteSets, TLC

(***************************************************************************)
(* Bounds of the model.                                                    *)
(***************************************************************************)
\* handler invocations the pattern may start in one execution
MaxInvocations == 4
\* new-input events the surrounding system may deliver
MaxInputs == 3
\* send_message / on_goal_achieved calls one handler invocation may make
MaxHandlerSteps == 2
\* create_soma_mcp_client scopes one run may open
MaxClients == 2
\* wrapped MCP calls one run may make (the run is followed up to its last call)
MaxCalls == 3
\* wrapped calls of one run that may go wrong: the session operation raises, or
\* the call is made after the scope of its client has exited
MaxFailures == 1
\* agent operations observed: constructions, entrypoint calls, registrations
MaxAgentOps == 4
\* batches of file changes the watcher is given
MaxBatches == 3

(***************************************************************************)
(* Program constants.                                                      *)
(***************************************************************************)
\* soma.task_history(page_size=1000, ...)
PageSize == 1000
\* the resync loops of the standalone server
max_retries == 10
base_delay_ms == 500

NEW_INPUT_PROMISE == "new_input_promise"

\* Python's None
None == "None"
\* values a handler may pass to on_goal_achieved or return from a workflow
Outputs == {None, "X", "Y"}

\* step keys the pattern engines pass to ctx.run_typed
FetchKey == "fetch_history"
SendKey == "send_message"
\* the key of a durable step the workflow handler issues on params.ctx itself
HandlerKey == "handler_step"

VARIABLES
    pattern,       \* "chat" | "workflow": which wrapped() is running
    first_turn,    \* WrappedChatHandlerParams.first_turn
    interruptable, \* WrappedWorkflowHandlerParams.interruptable
    pc,            \* position of wrapped()
    achieved,      \* chat: nonlocal achieved
    goal_output,   \* chat: nonlocal goal_output
    result,        \* value wrapped() returned (None until then)
    error,         \* exception that left wrapped() ("none" until then)
    promise,       \* id of the awakeable bound to new_input_promise / next_promise
    inputDone,     \* workflow: input_task has completed
    log,           \* ctx: recorded durable steps, key -> result
    kv,            \* ctx: key/value state; kv[NEW_INPUT_PROMISE] is the listen handle (0: unset)
    awk,           \* ctx: number of awakeables created (ids are 1..awk)
    resolved,      \* ctx: ids of the awakeables that were resolved
    timeline,      \* task API: the task's timeline, oldest first
    nInputs,       \* new-input events delivered so far
    invs,          \* one record per handler invocation, in order of invocation
    waits,         \* awaits of an awakeable future the engine has begun
    fetches,       \* run_typed("fetch_history") calls issued
    fnCalls,       \* per step key: executions of the function passed to run
    stale,         \* ids resolved by an outside actor after they were superseded
    clients,       \* SomaMcpClient objects created in the run, in order of creation
    issued,        \* wrapped MCP calls made in the run, in order: client, method, key
    runs,          \* concurrent invocations of one wrapped chat pattern, one record per run
    restate,       \* standalone server: whether the Restate SDK import succeeded
    rpc,           \* standalone server: position of the resync routine
    attempt,       \* resync: the loop variable attempt
    resync_success, \* resync: the flag resync_success
    sleeps,        \* resync: the delays slept so far, in ms, in order
    calls,         \* resync: resync_sdk() calls made so far
    resync_error,  \* resync: an exception has left the resync routine
    server,        \* standalone server: state of server_task (or of the process kept alive)
    shutdown_event, \* standalone server: shutdown_event / stop_event is set
    replayed,      \* the run has been restarted from its durable log
    orig,          \* the winner of each race decided before the restart, in order
    agents,        \* create_soma_agent calls: the arguments and the object returned
    entrypoint_calls, \* agent.entrypoint(params) calls and what each invoked
    add_agent_calls, \* add_agent(Agent(...)) calls made by the server, in order
    started,       \* wrapper methods of MCP clients started as concurrent tasks, in order
    watcher,       \* watch_and_regenerate: not started, watching, or exited
    procs,         \* server processes start_server has started, in order: alive or dead
    server_process, \* watch_and_regenerate: the variable server_process (0 for None)
    batches,       \* batches of changes watch() has yielded
    restarts       \* the batches that caused a regenerate-and-restart, in order

vars == <<pattern, first_turn, interruptable, pc, achieved, goal_output, result,
          error, promise, inputDone, log, kv, awk, resolved, timeline, nInputs,
          invs, waits, fetches, fnCalls, stale, clients, issued, runs, restate,
          rpc, attempt, resync_success, sleeps, calls, resync_error, server,
          shutdown_event, replayed, orig, agents, entrypoint_calls,
          add_agent_calls, started, watcher, procs, server_process, batches,
          restarts>>

cfgVars == <<pattern, first_turn, interruptable>>
mcpVars == <<clients, issued, started>>
chatVars == <<achieved, goal_output>>
ctxVars == <<log, kv, awk, resolved>>
isoVars == <<runs>>
replayVars == <<replayed, orig>>
agentVars == <<agents, entrypoint_calls, add_agent_calls>>
watchVars == <<watcher, procs, server_process, batches, restarts>>
resyncVars == <<restate, rpc, attempt, resync_success, sleeps, calls, resync_error,
                server, shutdown_event>>

Min(a, b) == IF a < b THEN a ELSE b

Last(s) == s[Len(s)]

(***************************************************************************)
(* Durable context: run(key, fn), awakeable(), set(key, value).            *)
(***************************************************************************)
\* whether a result is recorded under the key
Recorded(key) == key \in DOMAIN log

\* run(key, fn): the recorded result when there is one, else fn's result
RunResult(key, fnResult) == IF Recorded(key) THEN log[key] ELSE fnResult

\* the run log after run(key, fn)
RunLog(key, fnResult) ==
    IF Recorded(key) THEN log
    ELSE [k \in DOMAIN log \cup {key} |-> IF k = key THEN fnResult ELSE log[k]]

\* executions of fn after run(key, fn)
RunCalls(key) ==
    IF Recorded(key) THEN fnCalls
    ELSE [k \in DOMAIN fnCalls \cup {key} |->
            IF k # key THEN fnCalls[k]
            ELSE IF key \in DOMAIN fnCalls THEN fnCalls[key] + 1 ELSE 1]

\* faulty variant of Arm: the listen handle is stored only while the slot is
\* empty, so a later awakeable's id never replaces it
Arm_SetOnce ==
    /\ awk' = awk + 1
    /\ promise' = awk + 1
    /\ kv' = IF kv[NEW_INPUT_PROMISE] = 0
             THEN [kv EXCEPT ![NEW_INPUT_PROMISE] = awk + 1]
             ELSE kv

\* awakeable_id, promise = ctx.awakeable(); ctx.set(NEW_INPUT_PROMISE, awakeable_id)
Arm ==
    /\ awk' = awk + 1
    /\ promise' = awk + 1
    /\ kv' = [kv EXCEPT ![NEW_INPUT_PROMISE] = awk + 1]

\* faulty variant of Awaited: every wait is on the first awakeable's future
\* (await new_input_promise where next_promise is meant)
Awaited_FirstPromise == 1 \in resolved

\* await promise: the future of the awakeable the local variable holds
Awaited == promise \in resolved

(***************************************************************************)
(* Task API.                                                               *)
(***************************************************************************)
\* soma.task_history(page_size=1000, task_id)
task_history == SubSeq(timeline, 1, Min(Len(timeline), PageSize))

(***************************************************************************)
(* Handler invocations.                                                    *)
(***************************************************************************)
NewInvocation(history) ==
    [hist |-> history, seen |-> task_history, sent |-> 0, posted |-> 0,
     ngoals |-> 0, lastGoal |-> None, status |-> "running", value |-> None, awk |-> promise,
     late |-> FALSE, step |-> "none", stopped |-> FALSE]

\* new-input messages in a history
CountU(h) == Cardinality({i \in DOMAIN h : h[i] = "u"})

\* new input reached the invocation's awakeable while the invocation ran: the
\* awakeable is resolved and the timeline holds input its history lacks
LateInput(r) == r.awk \in resolved /\ nInputs > CountU(r.seen)

Running == Len(invs) > 0 /\ Last(invs).status = "running"

Cur == invs[Len(invs)]

SetCur(r) == invs' = [invs EXCEPT ![Len(invs)] = r]

StepsOf(r) == r.sent + r.ngoals

\* no concurrent pattern invocations are being observed
NoRuns == runs = <<>>

\* the standalone server has not been started
ServerOff ==
    /\ restate = "unset"
    /\ rpc = "off"
    /\ attempt = 0
    /\ resync_success = FALSE
    /\ sleeps = <<>>
    /\ calls = 0
    /\ resync_error = FALSE
    /\ server = "off"
    /\ shutdown_event = FALSE

\* the run has not been restarted
NoReplay == replayed = FALSE /\ orig = <<>>

\* no agent has been constructed
NoAgents == agents = <<>> /\ entrypoint_calls = <<>> /\ add_agent_calls = <<>>

\* watch_and_regenerate has not been called
NoWatcher ==
    /\ watcher = "off"
    /\ procs = <<>>
    /\ server_process = 0
    /\ batches = 0
    /\ restarts = <<>>

\* a run before wrapped() has executed anything
InitRun ==
    /\ pc = "start"
    /\ achieved = FALSE
    /\ goal_output = None
    /\ result = None
    /\ error = "none"
    /\ promise = 0
    /\ inputDone = FALSE
    /\ log = <<>>
    /\ kv = [k \in {NEW_INPUT_PROMISE} |-> 0]
    /\ awk = 0
    /\ resolved = {}
    /\ timeline = <<>>
    /\ nInputs = 0
    /\ invs = <<>>
    /\ waits = 0
    /\ fetches = 0
    /\ stale = {}
    /\ clients = <<>>
    /\ issued = <<>>
    /\ started = <<>>

Init ==
    /\ pattern \in {"chat", "workflow"}
    /\ first_turn \in {"user", "agent"}
    /\ interruptable \in BOOLEAN
    /\ (pattern = "chat" => interruptable = TRUE)
    /\ (pattern = "workflow" => first_turn = "user")
    /\ fnCalls = [k \in {FetchKey, SendKey} |-> 0]
    /\ InitRun
    /\ NoRuns
    /\ ServerOff
    /\ NoReplay
    /\ NoAgents
    /\ NoWatcher


(***************************************************************************)
(* The surrounding system.                                                 *)
(***************************************************************************)
\* a new message arrives: it is appended to the timeline and the awakeable
\* whose id the run stores as its listen handle is resolved
NewInput ==
    /\ nInputs < MaxInputs
    /\ nInputs' = nInputs + 1
    /\ timeline' = Append(timeline, "u")
    /\ resolved' = IF kv[NEW_INPUT_PROMISE] # 0
                   THEN resolved \cup {kv[NEW_INPUT_PROMISE]}
                   ELSE resolved
    /\ UNCHANGED <<cfgVars, watchVars, replayVars, agentVars, isoVars, resyncVars, mcpVars, pc, chatVars, result, error, promise, inputDone,
                   log, kv, awk, invs, waits, fetches, fnCalls, stale>>

\* an outside actor that still holds a superseded awakeable id resolves it
\* (resolving an awakeable a second time changes nothing)
StaleResolve ==
    \E a \in 1..awk :
        /\ a # kv[NEW_INPUT_PROMISE]
        /\ a \notin resolved
        /\ resolved' = resolved \cup {a}
        /\ stale' = stale \cup {a}
        /\ UNCHANGED <<cfgVars, watchVars, replayVars, agentVars, isoVars, resyncVars, mcpVars, pc, chatVars, result, error, promise, inputDone,
                       log, kv, awk, timeline, nInputs, invs, waits, fetches,
                       fnCalls>>

(***************************************************************************)
(* Steps of a handler invocation (user code given ChatHandlerParams or     *)
(* WorkflowHandlerParams).                                                 *)
(***************************************************************************)
\* await params.send_message(message): ctx.run_typed("send_message", send)
SendMessage ==
    /\ Running
    /\ StepsOf(Cur) < MaxHandlerSteps
    /\ log' = RunLog(SendKey, <<"a">>)
    /\ fnCalls' = RunCalls(SendKey)
    /\ timeline' = IF Recorded(SendKey) THEN timeline ELSE Append(timeline, "a")
    /\ SetCur([Cur EXCEPT !.sent = @ + 1,
                          !.posted = IF Recorded(SendKey) THEN @ ELSE @ + 1])
    /\ UNCHANGED <<cfgVars, watchVars, replayVars, agentVars, isoVars, resyncVars, mcpVars, pc, chatVars, result, error, promise, inputDone,
                   kv, awk, resolved, nInputs, waits, fetches, stale>>

ChatHandlerSend ==
    /\ pattern = "chat"
    /\ pc = "handler"
    /\ SendMessage

WfHandlerSend ==
    /\ pattern = "workflow"
    /\ pc \in {"handler", "race"}
    /\ Cur.step # "started"
    /\ SendMessage

\* faulty variant of on_goal_achieved: only the first output is recorded
on_goal_achieved_KeepFirst(output) ==
    /\ goal_output' = IF achieved THEN goal_output ELSE output
    /\ achieved' = TRUE

\* params.on_goal_achieved(output)
on_goal_achieved(output) ==
    /\ goal_output' = output
    /\ achieved' = TRUE

ChatHandlerGoal ==
    \E output \in Outputs :
        /\ pattern = "chat"
        /\ pc = "handler"
        /\ Running
        /\ StepsOf(Cur) < MaxHandlerSteps
        /\ on_goal_achieved(output)
        /\ SetCur([Cur EXCEPT !.ngoals = @ + 1, !.lastGoal = output])
        /\ UNCHANGED <<cfgVars, watchVars, replayVars, agentVars, isoVars, resyncVars, mcpVars, pc, result, error, promise, inputDone, ctxVars,
                       timeline, nInputs, waits, fetches, fnCalls, stale>>

(***************************************************************************)
(* chat.wrapped                                                            *)
(***************************************************************************)
\* faulty variant of ChatStart: the first turn never waits for the user
ChatStart_NoFirstWait ==
    /\ pattern = "chat"
    /\ pc = "start"
    /\ Arm
    /\ pc' = "fetch"
    /\ UNCHANGED <<cfgVars, watchVars, replayVars, agentVars, isoVars, resyncVars, mcpVars, chatVars, result, error, inputDone, log, resolved,
                   timeline, nInputs, invs, waits, fetches, fnCalls, stale>>

\* lines 119-134: create the awakeable, store its id, wait when the user starts
ChatStart ==
    /\ pattern = "chat"
    /\ pc = "start"
    /\ Arm
    /\ IF first_turn = "user"
       THEN pc' = "wait_first" /\ waits' = waits + 1
       ELSE pc' = "fetch" /\ waits' = waits
    /\ UNCHANGED <<cfgVars, watchVars, replayVars, agentVars, isoVars, resyncVars, mcpVars, chatVars, result, error, inputDone, log, resolved,
                   timeline, nInputs, invs, fetches, fnCalls, stale>>

\* line 134: await new_input_promise returns
ChatFirstInput ==
    /\ pattern = "chat"
    /\ pc = "wait_first"
    /\ Awaited
    /\ pc' = "fetch"
    /\ UNCHANGED <<cfgVars, watchVars, replayVars, agentVars, isoVars, resyncVars, mcpVars, chatVars, result, error, promise, inputDone, ctxVars,
                   timeline, nInputs, invs, waits, fetches, fnCalls, stale>>

\* faulty variant of ChatFetch: fetch_history() is called directly, not through
\* ctx.run_typed
ChatFetch_Unwrapped ==
    /\ pattern = "chat"
    /\ pc = "fetch"
    /\ ~achieved
    /\ Len(invs) < MaxInvocations
    /\ fetches' = fetches + 1
    /\ log' = [k \in DOMAIN log \cup {FetchKey} |->
                 IF k = FetchKey THEN task_history ELSE log[k]]
    /\ fnCalls' = [fnCalls EXCEPT ![FetchKey] = @ + 1]
    /\ invs' = Append(invs, NewInvocation(task_history))
    /\ pc' = "handler"
    /\ UNCHANGED <<cfgVars, watchVars, replayVars, agentVars, isoVars, resyncVars, mcpVars, chatVars, result, error, promise, inputDone, kv, awk,
                   resolved, timeline, nInputs, waits, stale>>

\* lines 136-169: fetch the history durably and invoke the handler
ChatFetch ==
    /\ pattern = "chat"
    /\ pc = "fetch"
    /\ ~achieved
    /\ Len(invs) < MaxInvocations
    /\ fetches' = fetches + 1
    /\ log' = RunLog(FetchKey, task_history)
    /\ fnCalls' = RunCalls(FetchKey)
    /\ invs' = Append(invs, NewInvocation(RunResult(FetchKey, task_history)))
    /\ pc' = "handler"
    /\ UNCHANGED <<cfgVars, watchVars, replayVars, agentVars, isoVars, resyncVars, mcpVars, chatVars, result, error, promise, inputDone, kv, awk,
                   resolved, timeline, nInputs, waits, stale>>

\* lines 179-182: the loop has ended
ChatExit ==
    IF goal_output = None
    THEN pc' = "failed" /\ error' = "Goal not achieved" /\ result' = result
    ELSE pc' = "done" /\ result' = goal_output /\ error' = error

\* faulty variant of ChatHandlerReturn: the re-arm is not guarded by achieved
ChatHandlerReturn_NoGoalCheck ==
    /\ pattern = "chat"
    /\ pc = "handler"
    /\ Running
    /\ SetCur([Cur EXCEPT !.status = "returned"])
    /\ Arm
    /\ waits' = waits + 1
    /\ pc' = "wait_next"
    /\ UNCHANGED <<result, error>>
    /\ UNCHANGED <<cfgVars, watchVars, replayVars, agentVars, isoVars, resyncVars, mcpVars, chatVars, inputDone, log, resolved, timeline,
                   nInputs, fetches, fnCalls, stale>>

\* lines 169-182: the handler returns; re-arm and wait, or leave the loop
ChatHandlerReturn ==
    /\ pattern = "chat"
    /\ pc = "handler"
    /\ Running
    /\ SetCur([Cur EXCEPT !.status = "returned"])
    /\ IF ~achieved
       THEN /\ Arm
            /\ waits' = waits + 1
            /\ pc' = "wait_next"
            /\ UNCHANGED <<result, error>>
       ELSE /\ ChatExit
            /\ UNCHANGED <<promise, kv, awk, waits>>
    /\ UNCHANGED <<cfgVars, watchVars, replayVars, agentVars, isoVars, resyncVars, mcpVars, chatVars, inputDone, log, resolved, timeline,
                   nInputs, fetches, fnCalls, stale>>

\* faulty variant of ChatHandlerRaise: wrapped() catches the handler's exception
\* and goes on to wait for the next message
ChatHandlerRaise_Swallowed ==
    /\ pattern = "chat"
    /\ pc = "handler"
    /\ Running
    /\ SetCur([Cur EXCEPT !.status = "raised"])
    /\ Arm
    /\ waits' = waits + 1
    /\ pc' = "wait_next"
    /\ UNCHANGED <<cfgVars, watchVars, replayVars, agentVars, isoVars, resyncVars, mcpVars, chatVars, result, error,
                   inputDone, log, resolved, timeline, nInputs, fetches, fnCalls,
                   stale>>

\* line 169: the handler raises; nothing in wrapped() catches it
ChatHandlerRaise ==
    /\ pattern = "chat"
    /\ pc = "handler"
    /\ Running
    /\ SetCur([Cur EXCEPT !.status = "raised"])
    /\ pc' = "failed"
    /\ error' = "HandlerError"
    /\ UNCHANGED <<cfgVars, watchVars, replayVars, agentVars, isoVars, resyncVars, mcpVars, chatVars, result, promise, inputDone, ctxVars,
                   timeline, nInputs, waits, fetches, fnCalls, stale>>

\* faulty variant of ChatNextInput: the loop goes on without awaiting
\* next_promise
ChatNextInput_NoWait ==
    /\ pattern = "chat"
    /\ pc = "wait_next"
    /\ pc' = "fetch"
    /\ UNCHANGED <<cfgVars, watchVars, replayVars, agentVars, isoVars, resyncVars, mcpVars, chatVars, result, error, promise, inputDone, ctxVars,
                   timeline, nInputs, invs, waits, fetches, fnCalls, stale>>

\* line 177: await next_promise returns; back to the loop's test
ChatNextInput ==
    /\ pattern = "chat"
    /\ pc = "wait_next"
    /\ Awaited
    /\ pc' = "fetch"
    /\ UNCHANGED <<cfgVars, watchVars, replayVars, agentVars, isoVars, resyncVars, mcpVars, chatVars, result, error, promise, inputDone, ctxVars,
                   timeline, nInputs, invs, waits, fetches, fnCalls, stale>>


(***************************************************************************)
(* workflow.wrapped                                                        *)
(***************************************************************************)
\* faulty variant of WfStart: the loop fetches before any awakeable exists
WfStart_NoAwakeable ==
    /\ pattern = "workflow"
    /\ pc = "start"
    /\ pc' = "fetch"
    /\ UNCHANGED <<cfgVars, watchVars, replayVars, agentVars, isoVars, resyncVars, mcpVars, chatVars, result, error, inputDone, ctxVars,
                   promise, timeline, nInputs, invs, waits, fetches, fnCalls, stale>>

\* lines 237-242: first pass through the loop top
WfStart ==
    /\ pattern = "workflow"
    /\ pc = "start"
    /\ Arm
    /\ pc' = "fetch"
    /\ UNCHANGED <<cfgVars, watchVars, replayVars, agentVars, isoVars, resyncVars, mcpVars, chatVars, result, error, inputDone, log, resolved,
                   timeline, nInputs, invs, waits, fetches, fnCalls, stale>>

\* faulty variant of WfFetch: the race is started whatever interruptable says
WfFetch_AlwaysRace ==
    /\ pattern = "workflow"
    /\ pc = "fetch"
    /\ Len(invs) < MaxInvocations
    /\ fetches' = fetches + 1
    /\ log' = RunLog(FetchKey, task_history)
    /\ fnCalls' = RunCalls(FetchKey)
    /\ invs' = Append(invs, NewInvocation(RunResult(FetchKey, task_history)))
    /\ pc' = "race" /\ waits' = waits + 1 /\ inputDone' = FALSE
    /\ UNCHANGED <<cfgVars, watchVars, replayVars, agentVars, isoVars, resyncVars, mcpVars, chatVars, result, error, promise, kv, awk, resolved,
                   timeline, nInputs, stale>>

\* lines 244-294 / 303-305: fetch the history durably, then start the race
\* (interruptable) or await the handler directly
WfFetch ==
    /\ pattern = "workflow"
    /\ pc = "fetch"
    /\ Len(invs) < MaxInvocations
    /\ fetches' = fetches + 1
    /\ log' = RunLog(FetchKey, task_history)
    /\ fnCalls' = RunCalls(FetchKey)
    /\ invs' = Append(invs, NewInvocation(RunResult(FetchKey, task_history)))
    /\ IF interruptable
       THEN pc' = "race" /\ waits' = waits + 1 /\ inputDone' = FALSE
       ELSE pc' = "handler" /\ waits' = waits /\ inputDone' = inputDone
    /\ UNCHANGED <<cfgVars, watchVars, replayVars, agentVars, isoVars, resyncVars, mcpVars, chatVars, result, error, promise, kv, awk, resolved,
                   timeline, nInputs, stale>>

\* line 305: return await handler(handler_params)
WfHandlerReturn ==
    \E v \in Outputs :
        /\ pattern = "workflow"
        /\ pc = "handler"
        /\ Running
        /\ SetCur([Cur EXCEPT !.status = "returned", !.value = v,
                              !.late = LateInput(Cur)])
        /\ pc' = "done"
        /\ result' = v
        /\ UNCHANGED <<cfgVars, watchVars, replayVars, agentVars, isoVars, resyncVars, mcpVars, chatVars, error, promise, inputDone, ctxVars,
                       timeline, nInputs, waits, fetches, fnCalls, stale>>

\* line 305: the handler raises
WfHandlerRaise ==
    /\ pattern = "workflow"
    /\ pc = "handler"
    /\ Running
    /\ SetCur([Cur EXCEPT !.status = "raised"])
    /\ pc' = "failed"
    /\ error' = "HandlerError"
    /\ UNCHANGED <<cfgVars, watchVars, replayVars, agentVars, isoVars, resyncVars, mcpVars, chatVars, result, promise, inputDone, ctxVars,
                   timeline, nInputs, waits, fetches, fnCalls, stale>>

\* lines 278-286: handler_task runs the handler to its return
WfTaskReturn ==
    \E v \in Outputs :
        /\ pattern = "workflow"
        /\ pc = "race"
        /\ Running
        /\ Cur.step # "started"
        /\ SetCur([Cur EXCEPT !.status = "returned", !.value = v,
                              !.late = LateInput(Cur)])
        /\ UNCHANGED <<cfgVars, watchVars, replayVars, agentVars, isoVars, resyncVars, mcpVars, pc, chatVars, result, error, promise, inputDone,
                       ctxVars, timeline, nInputs, waits, fetches, fnCalls, stale>>

\* lines 278-286: the handler raises inside handler_task
WfTaskRaise ==
    /\ pattern = "workflow"
    /\ pc = "race"
    /\ Running
    /\ Cur.step # "started"
    /\ SetCur([Cur EXCEPT !.status = "raised"])
    /\ UNCHANGED <<cfgVars, watchVars, replayVars, agentVars, isoVars, resyncVars, mcpVars, pc, chatVars, result, error, promise, inputDone,
                   ctxVars, timeline, nInputs, waits, fetches, fnCalls, stale>>

\* a durable step of the handler's own, ctx.run(HandlerKey, fn) on params.ctx,
\* is called inside handler_task: a recorded result is returned at once, else
\* fn starts executing
WfHandlerStepBegin ==
    /\ pattern = "workflow"
    /\ pc = "race"
    /\ Running
    /\ Cur.step = "none"
    /\ fnCalls' = RunCalls(HandlerKey)
    /\ SetCur([Cur EXCEPT !.step = IF Recorded(HandlerKey) THEN "recorded"
                                     ELSE "started"])
    /\ UNCHANGED <<cfgVars, watchVars, replayVars, agentVars, isoVars, resyncVars, mcpVars, pc, chatVars, result, error, promise, inputDone,
                   ctxVars, timeline, nInputs, waits, fetches, stale>>

\* fn has returned and its result is recorded under the key
WfHandlerStepEnd ==
    /\ pattern = "workflow"
    /\ pc = "race"
    /\ Running
    /\ Cur.step = "started"
    /\ log' = RunLog(HandlerKey, <<"r">>)
    /\ SetCur([Cur EXCEPT !.step = "recorded"])
    /\ UNCHANGED <<cfgVars, watchVars, replayVars, agentVars, isoVars, resyncVars, mcpVars, pc, chatVars, result, error, promise, inputDone,
                   kv, awk, resolved, timeline, nInputs, waits, fetches, fnCalls, stale>>

\* faulty variant of WfInputTaskDone: input_task is not cancelled when the
\* handler wins and completes after the workflow has returned
WfInputTaskDone_NotCancelled ==
    /\ pattern = "workflow"
    /\ pc \in {"race", "done"}
    /\ interruptable
    /\ ~inputDone
    /\ Awaited
    /\ inputDone' = TRUE
    /\ UNCHANGED <<cfgVars, watchVars, replayVars, agentVars, isoVars, resyncVars, mcpVars, pc, chatVars, result, error, promise, ctxVars,
                   timeline, nInputs, invs, waits, fetches, fnCalls, stale>>

\* lines 281-289: input_task's await new_input_promise returns
WfInputTaskDone ==
    /\ pattern = "workflow"
    /\ pc = "race"
    /\ ~inputDone
    /\ Awaited
    /\ inputDone' = TRUE
    /\ UNCHANGED <<cfgVars, watchVars, replayVars, agentVars, isoVars, resyncVars, mcpVars, pc, chatVars, result, error, promise, ctxVars,
                   timeline, nInputs, invs, waits, fetches, fnCalls, stale>>

\* line 299: handler_task in done
HandlerTaskDone == Cur.status \in {"returned", "raised"}

\* faulty variant of WfRaceObserve: when the input wins, the loop starts over
\* without cancelling handler_task
WfRaceObserve_NoCancel ==
    /\ pattern = "workflow"
    /\ pc = "race"
    /\ inputDone \/ HandlerTaskDone
    /\ IF HandlerTaskDone
       THEN /\ IF Cur.status = "returned"
               THEN pc' = "done" /\ result' = Cur.value /\ error' = error
               ELSE pc' = "failed" /\ error' = "HandlerError" /\ result' = result
            /\ UNCHANGED <<invs, promise, kv, awk>>
       ELSE /\ invs' = invs
            /\ Arm
            /\ pc' = "fetch"
            /\ UNCHANGED <<result, error>>
    /\ UNCHANGED <<cfgVars, watchVars, replayVars, agentVars, isoVars, resyncVars, mcpVars, chatVars, inputDone, log, resolved, timeline,
                   nInputs, waits, fetches, fnCalls, stale>>

\* faulty variant of WfRaceObserve: cancelling the handler also discards the
\* durable steps it had completed
WfRaceObserve_Rollback ==
    /\ pattern = "workflow"
    /\ pc = "race"
    /\ inputDone \/ HandlerTaskDone
    /\ IF HandlerTaskDone
       THEN /\ IF Cur.status = "returned"
               THEN pc' = "done" /\ result' = Cur.value /\ error' = error
               ELSE pc' = "failed" /\ error' = "HandlerError" /\ result' = result
            /\ UNCHANGED <<invs, promise, kv, awk, log>>
       ELSE /\ SetCur([Cur EXCEPT !.status = "cancelled"])
            /\ Arm
            /\ pc' = "fetch"
            /\ log' = [k \in DOMAIN log \ {SendKey} |-> log[k]]
            /\ UNCHANGED <<result, error>>
    /\ UNCHANGED <<cfgVars, watchVars, replayVars, agentVars, isoVars, resyncVars, mcpVars, chatVars, inputDone,
                   resolved, timeline, nInputs, waits, fetches, fnCalls, stale>>

\* faulty variant of WfRaceObserve: when the input wins, the workflow returns
\* instead of starting the loop over
WfRaceObserve_ReturnOnInput ==
    /\ pattern = "workflow"
    /\ pc = "race"
    /\ inputDone \/ HandlerTaskDone
    /\ IF HandlerTaskDone
       THEN /\ IF Cur.status = "returned"
               THEN pc' = "done" /\ result' = Cur.value /\ error' = error
               ELSE pc' = "failed" /\ error' = "HandlerError" /\ result' = result
            /\ UNCHANGED <<invs>>
       ELSE /\ SetCur([Cur EXCEPT !.status = "cancelled"])
            /\ pc' = "done"
            /\ UNCHANGED <<result, error>>
    /\ UNCHANGED <<cfgVars, watchVars, replayVars, agentVars, isoVars, resyncVars, mcpVars, chatVars, inputDone, log,
                   resolved, timeline, nInputs, waits, fetches, fnCalls, stale,
                   promise, kv, awk>>

\* faulty variant of WfRaceObserve: the new input wins whenever input_task is
\* done, also when handler_task is done as well
WfRaceObserve_InputWinsTie ==
    /\ pattern = "workflow"
    /\ pc = "race"
    /\ inputDone \/ HandlerTaskDone
    /\ IF ~inputDone
       THEN /\ IF Cur.status = "returned"
               THEN pc' = "done" /\ result' = Cur.value /\ error' = error
               ELSE pc' = "failed" /\ error' = "HandlerError" /\ result' = result
            /\ UNCHANGED <<invs, promise, kv, awk>>
       ELSE /\ SetCur([Cur EXCEPT !.status = "cancelled"])
            /\ Arm
            /\ pc' = "fetch"
            /\ UNCHANGED <<result, error>>
    /\ UNCHANGED <<cfgVars, watchVars, replayVars, agentVars, isoVars, resyncVars, mcpVars, chatVars, inputDone, log, resolved, timeline,
                   nInputs, waits, fetches, fnCalls, stale>>

\* lines 291-302 (and 237-242 when looping): asyncio.wait returns; the pending
\* task is cancelled; the handler's outcome is taken when handler_task is done,
\* else the loop starts over
WfRaceObserve ==
    /\ pattern = "workflow"
    /\ pc = "race"
    /\ inputDone \/ HandlerTaskDone
    /\ IF HandlerTaskDone
       THEN /\ IF Cur.status = "returned"
               THEN pc' = "done" /\ result' = Cur.value /\ error' = error
               ELSE pc' = "failed" /\ error' = "HandlerError" /\ result' = result
            /\ UNCHANGED <<invs, promise, kv, awk>>
       ELSE /\ SetCur([Cur EXCEPT !.status = "cancelled"])
            /\ Arm
            /\ pc' = "fetch"
            /\ UNCHANGED <<result, error>>
    /\ UNCHANGED <<cfgVars, watchVars, replayVars, agentVars, isoVars, resyncVars, mcpVars, chatVars, inputDone, log, resolved, timeline,
                   nInputs, waits, fetches, fnCalls, stale>>

\* lines 296-297 request the cancellation and do not await the task: the
\* CancelledError reaches the handler at its await once wrapped() has given up
\* the event loop (a step in flight is abandoned unrecorded); the handler stops,
\* at once or after its except / finally code has awaited params.send_message
WfCancelDelivered ==
    \E i \in 1..Len(invs), cleanup \in BOOLEAN :
        /\ pattern = "workflow"
        /\ invs[i].status = "cancelled"
        /\ ~invs[i].stopped
        /\ IF cleanup
           THEN /\ log' = RunLog(SendKey, <<"a">>)
                /\ fnCalls' = RunCalls(SendKey)
                /\ timeline' = IF Recorded(SendKey) THEN timeline
                               ELSE Append(timeline, "a")
                /\ invs' = [invs EXCEPT ![i].stopped = TRUE,
                                        ![i].sent = @ + 1,
                                        ![i].posted = IF Recorded(SendKey) THEN @
                                                      ELSE @ + 1]
           ELSE /\ invs' = [invs EXCEPT ![i].stopped = TRUE]
                /\ UNCHANGED <<log, fnCalls, timeline>>
        /\ UNCHANGED <<cfgVars, watchVars, replayVars, agentVars, isoVars, resyncVars, mcpVars, pc, chatVars, result, error, promise, inputDone,
                       kv, awk, resolved, nInputs, waits, fetches, stale>>

Next ==
    \/ NewInput
    \/ StaleResolve
    \/ ChatStart
    \/ ChatFirstInput
    \/ ChatFetch
    \/ ChatHandlerSend
    \/ ChatHandlerGoal
    \/ ChatHandlerReturn
    \/ ChatHandlerRaise
    \/ ChatNextInput
    \/ WfStart
    \/ WfFetch
    \/ WfHandlerSend
    \/ WfHandlerReturn
    \/ WfHandlerRaise
    \/ WfTaskReturn
    \/ WfTaskRaise
    \/ WfInputTaskDone
    \/ WfRaceObserve

Spec == Init /\ [][Next]_vars

\* a run of the workflow pattern alone
InitWf ==
    /\ pattern = "workflow"
    /\ first_turn = "user"
    /\ interruptable \in BOOLEAN
    /\ fnCalls = [k \in {FetchKey, SendKey} |-> 0]
    /\ InitRun
    /\ NoRuns
    /\ ServerOff
    /\ NoReplay
    /\ NoAgents
    /\ NoWatcher

\* (every awakeable the workflow supersedes has been resolved, so no outside
\* actor can resolve a superseded one for the first time)
NextWf ==
    \/ NewInput
    \/ WfStart
    \/ WfFetch
    \/ WfHandlerSend
    \/ WfHandlerReturn
    \/ WfHandlerRaise
    \/ WfTaskReturn
    \/ WfTaskRaise
    \/ WfInputTaskDone
    \/ WfRaceObserve

\* the event loop runs wrapped() and its tasks whenever they can proceed
WfEngineStep == WfStart \/ WfFetch \/ WfInputTaskDone \/ WfRaceObserve

\* a handler invocation that is not cancelled completes
WfHandlerCompletes ==
    WfHandlerReturn \/ WfHandlerRaise \/ WfTaskReturn \/ WfTaskRaise

\* the workflow pattern under fair scheduling: finitely many new-input events
\* arrive, wrapped() and its tasks run when they can, and a handler invocation
\* that is not cancelled completes
SpecWfFair ==
    /\ InitWf
    /\ [][NextWf]_vars
    /\ WF_vars(WfEngineStep)
    /\ WF_vars(WfHandlerCompletes)

\* an interruptable workflow whose handler issues a durable step of its own
\* and may handle its cancellation
InitCancel ==
    /\ pattern = "workflow"
    /\ first_turn = "user"
    /\ interruptable = TRUE
    /\ fnCalls = [k \in {FetchKey, SendKey} |-> 0]
    /\ InitRun
    /\ NoRuns
    /\ ServerOff
    /\ NoReplay
    /\ NoAgents
    /\ NoWatcher

NextCancel ==
    \/ NewInput
    \/ WfStart
    \/ WfFetch
    \/ WfHandlerStepBegin
    \/ WfHandlerStepEnd
    \/ WfTaskReturn
    \/ WfTaskRaise
    \/ WfInputTaskDone
    \/ WfRaceObserve
    \/ WfCancelDelivered

SpecCancel == InitCancel /\ [][NextCancel]_vars

TypeOK ==
    /\ pc \in {"start", "wait_first", "fetch", "handler", "wait_next", "race",
               "done", "failed"}
    /\ awk \in 0..(MaxInvocations + 1)
    /\ promise \in 0..awk
    /\ kv[NEW_INPUT_PROMISE] \in 0..awk
    /\ resolved \subseteq 1..awk
    /\ Len(invs) <= MaxInvocations
    /\ goal_output \in Outputs
    /\ result \in Outputs


(***************************************************************************)
(* Durable MCP client (mcp.py).                                            *)
(***************************************************************************)
\* MCP server instance ids a run may connect to
InstanceIds == {"m1", "m2"}

\* the wrapper methods of SomaMcpClient
Methods == {"ping", "list_tools", "call_tool", "list_resources",
            "list_resource_templates", "read_resource", "subscribe_resource",
            "unsubscribe_resource", "list_prompts", "get_prompt",
            "send_roots_list_changed"}

\* the methods the modelled handler code calls
CalledMethods == {"list_tools", "call_tool"}

\* the operation name each method writes into its step key
OperationName(method) ==
    CASE method = "ping" -> "ping"
      [] method = "list_tools" -> "listTools"
      [] method = "call_tool" -> "callTool"
      [] method = "list_resources" -> "listResources"
      [] method = "list_resource_templates" -> "listResourceTemplates"
      [] method = "read_resource" -> "readResource"
      [] method = "subscribe_resource" -> "subscribeResource"
      [] method = "unsubscribe_resource" -> "unsubscribeResource"
      [] method = "list_prompts" -> "listPrompts"
      [] method = "get_prompt" -> "getPrompt"
      [] method = "send_roots_list_changed" -> "sendRootsListChanged"

\* the result type each method validates the step's data into
ResultType(method) ==
    CASE method \in {"ping", "subscribe_resource", "unsubscribe_resource"} -> "EmptyResult"
      [] method = "list_tools" -> "ListToolsResult"
      [] method = "call_tool" -> "CallToolResult"
      [] method = "list_resources" -> "ListResourcesResult"
      [] method = "list_resource_templates" -> "ListResourceTemplatesResult"
      [] method = "read_resource" -> "ReadResourceResult"
      [] method = "list_prompts" -> "ListPromptsResult"
      [] method = "get_prompt" -> "GetPromptResult"
      [] method = "send_roots_list_changed" -> None

\* what the session operation of a method returns: an object of the method's
\* result type
SessionResponse(method) ==
    [type |-> ResultType(method), content |-> <<"content", method>>]

\* result.model_dump(): the fields as a plain dict, which carries no type
model_dump(response) == [type |-> "dict", content |-> response.content]

\* T.model_validate(data): an object of type T with the dict's fields
model_validate(T, data) == [type |-> T, content |-> data.content]

\* f"mcp-{self._client_name}-{operation}-index-{index}", as the parts the
\* f-string joins with "-"
StepKey(client_name, method, index) ==
    <<"mcp", client_name, OperationName(method), "index", index>>

\* a run in which handler code uses MCP clients
InitMcp ==
    /\ pattern = "chat"
    /\ first_turn = "agent"
    /\ interruptable = TRUE
    /\ fnCalls = <<>>
    /\ InitRun
    /\ NoRuns
    /\ ServerOff
    /\ NoReplay
    /\ NoAgents
    /\ NoWatcher

\* what run records, and re-raises, when the function of a step raised
Failure == [type |-> "failure", content |-> <<>>]

\* the ways the body of the async with block can be left
ExitPaths == {"normal", "exception", "cancelled"}

\* async with create_soma_mcp_client(ctx, mcp_server_instance_id) as client:
\* the transport and the session are opened, the session is initialized, and
\* the scope yields SomaMcpClient(ctx, session, mcp_server_instance_id)
McpOpen ==
    \E id \in InstanceIds :
        /\ Len(clients) < MaxClients
        /\ Len(issued) < MaxCalls
        /\ clients' = Append(clients,
                             [name |-> id, request_index |-> 0, open |-> TRUE,
                              session |-> "initialized"])
        /\ UNCHANGED <<cfgVars, watchVars, replayVars, agentVars, isoVars, resyncVars, started, pc, chatVars, result, error,
                       promise, inputDone, ctxVars, timeline, nInputs, invs, waits,
                       fetches, fnCalls, stale, issued>>

\* faulty variant of McpClose: the session is closed only when the body ends
\* normally
McpClose_NormalExitOnly ==
    \E c \in 1..Len(clients), how \in ExitPaths :
        /\ clients[c].open
        /\ Len(issued) < MaxCalls
        /\ clients' = [clients EXCEPT ![c].open = FALSE,
                                      ![c].session = IF how = "normal"
                                                     THEN "closed" ELSE @]
        /\ UNCHANGED <<cfgVars, watchVars, replayVars, agentVars, isoVars, resyncVars, started, pc, chatVars, result, error,
                       promise, inputDone, ctxVars, timeline, nInputs, invs, waits,
                       fetches, fnCalls, stale, issued>>

\* the async with block is left, in any way: the session's and the transport's
\* context managers exit
McpClose ==
    \E c \in 1..Len(clients), how \in ExitPaths :
        /\ clients[c].open
        /\ Len(issued) < MaxCalls
        /\ clients' = [clients EXCEPT ![c].open = FALSE, ![c].session = "closed"]
        /\ UNCHANGED <<cfgVars, watchVars, replayVars, agentVars, isoVars, resyncVars, started, pc, chatVars, result, error,
                       promise, inputDone, ctxVars, timeline, nInputs, invs, waits,
                       fetches, fnCalls, stale, issued>>

\* executions of the function of a step so far
Executions(calls_, key) == IF key \in DOMAIN calls_ THEN calls_[key] ELSE 0

\* faulty variant of IssuedCall: a step that is executed returns the dict its
\* function produced, and only a replayed one is validated into the result type
IssuedCall_RawFirst(c, method, key, fnResult) ==
    [client |-> c, method |-> method, key |-> key,
     inScope |-> clients[c].open,
     session |-> clients[c].session,
     attempts |-> Executions(RunCalls(key), key) - Executions(fnCalls, key),
     fnRaised |-> ~Recorded(key) /\ fnResult = Failure,
     outcome |-> IF RunResult(key, fnResult) = Failure THEN "raised" ELSE "returned",
     value |-> IF RunResult(key, fnResult) = Failure THEN None
               ELSE IF Recorded(key)
                    THEN model_validate(ResultType(method), RunResult(key, fnResult))
                    ELSE fnResult]

\* the record of one wrapped call: the session as the call found it, whether
\* the call was made inside the scope, how often and with what outcome the
\* session operation was executed for it, and what the wrapper method did
IssuedCall(c, method, key, fnResult) ==
    [client |-> c, method |-> method, key |-> key,
     inScope |-> clients[c].open,
     session |-> clients[c].session,
     attempts |-> Executions(RunCalls(key), key) - Executions(fnCalls, key),
     fnRaised |-> ~Recorded(key) /\ fnResult = Failure,
     outcome |-> IF RunResult(key, fnResult) = Failure THEN "raised" ELSE "returned",
     value |-> IF RunResult(key, fnResult) = Failure THEN None
               ELSE model_validate(ResultType(method), RunResult(key, fnResult))]

\* calls so far whose session operation raised or that were made after the
\* scope of their client had exited
Failures ==
    Cardinality({j \in 1..Len(issued) : issued[j].fnRaised \/ ~issued[j].inScope})

\* whether the session operation of a call may be made to raise: it is executed
\* (no result is recorded under the key) on an open session
MayFail(c, key) ==
    /\ ~Recorded(key)
    /\ clients[c].session = "initialized"
    /\ Failures < MaxFailures

\* whether a wrapper method may be called on the client: inside its scope, or
\* after it on a client object kept beyond the scope
MayCall(c) == clients[c].open \/ Failures < MaxFailures

\* what the session operation does when it is executed: it raises on a session
\* that is no longer open, and may raise on an open one
SessionResult(c, method, fails) ==
    IF fails \/ clients[c].session # "initialized" THEN Failure
    ELSE model_dump(SessionResponse(method))

\* faulty variant of McpCall: the request index is read but not incremented
McpCall_NoIncrement ==
    \E c \in 1..Len(clients), method \in CalledMethods, fails \in BOOLEAN :
        LET index == clients[c].request_index
            key == StepKey(clients[c].name, method, index)
            fnResult == SessionResult(c, method, fails)
        IN  /\ Len(issued) < MaxCalls
            /\ MayCall(c)
            /\ fails => MayFail(c, key)
            /\ clients' = clients
            /\ log' = RunLog(key, fnResult)
            /\ fnCalls' = RunCalls(key)
            /\ issued' = Append(issued, IssuedCall(c, method, key, fnResult))
            /\ UNCHANGED <<cfgVars, watchVars, replayVars, agentVars, isoVars, resyncVars, started, pc, chatVars, result,
                           error, promise, inputDone, kv, awk, resolved, timeline,
                           nInputs, invs, waits, fetches, stale>>

\* faulty variant of McpCall: a session operation that raised is tried again
McpCall_Retry ==
    \E c \in 1..Len(clients), method \in CalledMethods, fails \in BOOLEAN :
        LET index == clients[c].request_index
            key == StepKey(clients[c].name, method, index)
            fnResult == SessionResult(c, method, fails)
            retried == ~Recorded(key) /\ fnResult = Failure
        IN  /\ Len(issued) < MaxCalls
            /\ MayCall(c)
            /\ fails => MayFail(c, key)
            /\ clients' = [clients EXCEPT ![c].request_index = index + 1]
            /\ log' = RunLog(key, model_dump(SessionResponse(method)))
            /\ fnCalls' = IF retried
                          THEN [k \in DOMAIN fnCalls \cup {key} |->
                                  IF k = key THEN 2 ELSE fnCalls[k]]
                          ELSE RunCalls(key)
            /\ issued' = Append(issued,
                   [IssuedCall(c, method, key, fnResult) EXCEPT
                       !.attempts = IF retried THEN 2 ELSE @,
                       !.outcome = IF retried THEN "returned" ELSE @,
                       !.value = IF retried THEN SessionResponse(method) ELSE @])
            /\ UNCHANGED <<cfgVars, watchVars, replayVars, agentVars, isoVars, resyncVars, started, pc, chatVars, result,
                           error, promise, inputDone, kv, awk, resolved, timeline,
                           nInputs, invs, waits, fetches, stale>>

\* faulty variant of McpCall: the request index is incremented after the
\* durable step, so a call whose step fails leaves it unchanged
McpCall_IncrementOnSuccess ==
    \E c \in 1..Len(clients), method \in CalledMethods, fails \in BOOLEAN :
        LET index == clients[c].request_index
            key == StepKey(clients[c].name, method, index)
            fnResult == SessionResult(c, method, fails)
        IN  /\ Len(issued) < MaxCalls
            /\ MayCall(c)
            /\ fails => MayFail(c, key)
            /\ clients' = IF RunResult(key, fnResult) = Failure THEN clients
                          ELSE [clients EXCEPT ![c].request_index = index + 1]
            /\ log' = RunLog(key, fnResult)
            /\ fnCalls' = RunCalls(key)
            /\ issued' = Append(issued, IssuedCall(c, method, key, fnResult))
            /\ UNCHANGED <<cfgVars, watchVars, replayVars, agentVars, isoVars, resyncVars, started, pc, chatVars, result,
                           error, promise, inputDone, kv, awk, resolved, timeline,
                           nInputs, invs, waits, fetches, stale>>

\* a wrapper method of SomaMcpClient: take the request index, increment it, and
\* run the session operation as a durable step under the key built from the
\* client name, the operation and the index; the result of the step is
\* returned, its failure is raised
McpCall ==
    \E c \in 1..Len(clients), method \in CalledMethods, fails \in BOOLEAN :
        LET index == clients[c].request_index
            key == StepKey(clients[c].name, method, index)
            fnResult == SessionResult(c, method, fails)
        IN  /\ Len(issued) < MaxCalls
            /\ MayCall(c)
            /\ fails => MayFail(c, key)
            /\ clients' = [clients EXCEPT ![c].request_index = index + 1]
            /\ log' = RunLog(key, fnResult)
            /\ fnCalls' = RunCalls(key)
            /\ issued' = Append(issued, IssuedCall(c, method, key, fnResult))
            /\ UNCHANGED <<cfgVars, watchVars, replayVars, agentVars, isoVars, resyncVars, started, pc, chatVars, result,
                           error, promise, inputDone, kv, awk, resolved, timeline,
                           nInputs, invs, waits, fetches, stale>>

NextMcp ==
    \/ McpOpen
    \/ McpClose
    \/ McpCall

SpecMcp == InitMcp /\ [][NextMcp]_vars

(***************************************************************************)
(* Concurrent invocations of one wrapped chat pattern, each with its own   *)
(* durable context (chat.wrapped, followed per run without the task        *)
(* history: the locals goal_output and achieved, the awakeables and the    *)
(* listen handle of each run).                                             *)
(***************************************************************************)
\* the runs the dispatcher has started on the same wrapped pattern
RunIds == {1, 2}

\* the single observed run of the pattern engines is not used
PatternOff ==
    /\ pattern = "chat"
    /\ first_turn = "user"
    /\ interruptable = TRUE
    /\ fnCalls = <<>>
    /\ InitRun

\* the id of the n-th awakeable created on the context of run r
AwakeableId(r, n) == <<r, n>>

\* the call wrapped(params) of run r before it has executed anything: its
\* locals, and the state of params.ctx
NewRun(r, ft) ==
    [first_turn |-> ft, pc |-> "start", achieved |-> FALSE, goal_output |-> None,
     result |-> None, error |-> "none", promise |-> <<>>, kv |-> <<>>,
     awk |-> 0, resolved |-> {}, turns |-> 0, lastGoal |-> None,
     called |-> FALSE]

InitIso ==
    /\ PatternOff
    /\ ServerOff
    /\ NoReplay
    /\ NoAgents
    /\ NoWatcher
    /\ runs \in {[r \in RunIds |-> NewRun(r, ft[r])] :
                    ft \in [RunIds -> {"user", "agent"}]}

IsoFrame ==
    UNCHANGED <<cfgVars, watchVars, replayVars, agentVars, resyncVars, mcpVars, pc, chatVars, result, error, promise,
                inputDone, ctxVars, timeline, nInputs, invs, waits, fetches,
                fnCalls, stale>>

\* ctx.awakeable(); ctx.set(NEW_INPUT_PROMISE, id) on the context of run r
RunArm(r, rec) ==
    [rec EXCEPT !.awk = @ + 1,
                !.promise = AwakeableId(r, rec.awk + 1),
                !.kv = AwakeableId(r, rec.awk + 1)]

\* a new message for the task of run r resolves the awakeable whose id the
\* context of run r stores (a message that finds no unresolved handle changes
\* nothing of the run)
IsoNewInput ==
    \E r \in RunIds :
        /\ runs[r].kv # <<>>
        /\ runs[r].kv \notin runs[r].resolved
        /\ runs' = [runs EXCEPT ![r].resolved = @ \cup {runs[r].kv}]
        /\ IsoFrame

\* lines 119-134 in run r
IsoChatStart ==
    \E r \in RunIds :
        /\ runs[r].pc = "start"
        /\ runs' = [runs EXCEPT ![r] =
                      [RunArm(r, runs[r]) EXCEPT
                          !.pc = IF runs[r].first_turn = "user"
                                 THEN "wait" ELSE "fetch"]]
        /\ IsoFrame

\* lines 134 and 177 in run r: the awaited awakeable future has resolved
IsoChatInput ==
    \E r \in RunIds :
        /\ runs[r].pc = "wait"
        /\ runs[r].promise \in runs[r].resolved
        /\ runs' = [runs EXCEPT ![r].pc = "fetch"]
        /\ IsoFrame

\* lines 136-169 in run r: the loop test passes and the handler is invoked
IsoChatTurn ==
    \E r \in RunIds :
        /\ runs[r].pc = "fetch"
        /\ ~runs[r].achieved
        /\ runs[r].turns < MaxInvocations
        /\ runs' = [runs EXCEPT ![r].pc = "handler", ![r].turns = @ + 1]
        /\ IsoFrame

\* faulty variant of IsoHandlerGoal: goal_output and achieved are shared by all
\* invocations of the wrapped pattern (module-level instead of local to
\* wrapped())
IsoHandlerGoal_Shared ==
    \E r \in RunIds, output \in Outputs :
        /\ runs[r].pc = "handler"
        /\ runs' = [q \in RunIds |->
                      IF q = r
                      THEN [runs[q] EXCEPT !.goal_output = output,
                                           !.achieved = TRUE,
                                           !.lastGoal = output,
                                           !.called = TRUE]
                      ELSE [runs[q] EXCEPT !.goal_output = output,
                                           !.achieved = TRUE]]
        /\ IsoFrame

\* lines 128-131: the handler of run r calls params.on_goal_achieved(output),
\* the closure over the locals of that run's wrapped() call
IsoHandlerGoal ==
    \E r \in RunIds, output \in Outputs :
        /\ runs[r].pc = "handler"
        /\ runs' = [runs EXCEPT ![r].goal_output = output,
                                ![r].achieved = TRUE,
                                ![r].lastGoal = output,
                                ![r].called = TRUE]
        /\ IsoFrame

\* lines 169-182 in run r: the handler returns; re-arm and wait, or leave the
\* loop and return goal_output
IsoHandlerReturn ==
    \E r \in RunIds :
        /\ runs[r].pc = "handler"
        /\ runs' = [runs EXCEPT ![r] =
                      IF ~runs[r].achieved
                      THEN [RunArm(r, runs[r]) EXCEPT !.pc = "wait"]
                      ELSE IF runs[r].goal_output = None
                      THEN [runs[r] EXCEPT !.pc = "failed",
                                           !.error = "Goal not achieved"]
                      ELSE [runs[r] EXCEPT !.pc = "done",
                                           !.result = runs[r].goal_output]]
        /\ IsoFrame

\* line 169 in run r: the handler raises
IsoHandlerRaise ==
    \E r \in RunIds :
        /\ runs[r].pc = "handler"
        /\ runs' = [runs EXCEPT ![r].pc = "failed", ![r].error = "HandlerError"]
        /\ IsoFrame

NextIso ==
    \/ IsoNewInput
    \/ IsoChatStart
    \/ IsoChatInput
    \/ IsoChatTurn
    \/ IsoHandlerGoal
    \/ IsoHandlerReturn
    \/ IsoHandlerRaise

SpecIso == InitIso /\ [][NextIso]_vars

(***************************************************************************)
(* Startup resync of the generated standalone server (standalone.py,       *)
(* generate_standalone_server): the resync loop of the resync thread when  *)
(* the Restate SDK is available, the same loop in main() when it is not,   *)
(* and the server task awaited until shutdown.                             *)
(***************************************************************************)
InitResync ==
    /\ PatternOff
    /\ NoRuns
    /\ ServerOff
    /\ NoReplay
    /\ NoAgents
    /\ NoWatcher

ResyncFrame ==
    UNCHANGED <<cfgVars, watchVars, replayVars, agentVars, isoVars, mcpVars, pc, chatVars, result, error, promise,
                inputDone, ctxVars, timeline, nInputs, invs, waits, fetches,
                fnCalls, stale>>

\* the process has not exited (the resync thread is a daemon thread)
ProcessAlive == server # "stopped"

\* startup: with the Restate SDK the server task is created and the resync
\* thread is started; on ImportError main() goes straight to the resync loop
ServerStart ==
    \E sdk \in {"available", "missing"} :
        /\ restate = "unset"
        /\ restate' = sdk
        /\ IF sdk = "available"
           THEN server' = "running" /\ rpc' = "delay" /\ attempt' = attempt
           ELSE server' = "none" /\ rpc' = "try" /\ attempt' = 1
        /\ UNCHANGED <<resync_success, sleeps, calls, resync_error, shutdown_event>>
        /\ ResyncFrame

\* resync thread: time.sleep(0.5) is over, asyncio.run(run_resync()) enters the
\* loop
ResyncThreadBegin ==
    /\ rpc = "delay"
    /\ ProcessAlive
    /\ rpc' = "try"
    /\ attempt' = 1
    /\ UNCHANGED <<restate, resync_success, sleeps, calls, resync_error, server,
                   shutdown_event>>
    /\ ResyncFrame

\* the for statement takes its next value: the loop ends after max_retries, and
\* the body breaks at once when resync_success is set
LoopNext(success) ==
    IF attempt < max_retries
    THEN /\ attempt' = attempt + 1
         /\ rpc' = IF success THEN "done" ELSE "try"
    ELSE /\ attempt' = attempt
         /\ rpc' = "done"

\* faulty variant of ResyncAttempt: the delay does not grow with the attempt
ResyncAttempt_ConstantDelay ==
    \E ok \in BOOLEAN :
        /\ rpc = "try"
        /\ ProcessAlive
        /\ calls' = calls + 1
        /\ IF ok
           THEN /\ resync_success' = TRUE
                /\ LoopNext(TRUE)
                /\ sleeps' = sleeps
           ELSE /\ resync_success' = resync_success
                /\ IF attempt < max_retries
                   THEN /\ sleeps' = Append(sleeps, base_delay_ms)
                        /\ rpc' = "sleep"
                        /\ attempt' = attempt
                   ELSE /\ sleeps' = sleeps
                        /\ LoopNext(FALSE)
        /\ UNCHANGED <<restate, resync_error, server, shutdown_event>>
        /\ ResyncFrame

\* faulty variant of ResyncAttempt: the error of the last attempt is raised
\* again and ends the server
ResyncAttempt_RaiseWhenExhausted ==
    \E ok \in BOOLEAN :
        /\ rpc = "try"
        /\ ProcessAlive
        /\ calls' = calls + 1
        /\ IF ok
           THEN /\ resync_success' = TRUE
                /\ LoopNext(TRUE)
                /\ UNCHANGED <<sleeps, resync_error, server>>
           ELSE /\ resync_success' = resync_success
                /\ IF attempt < max_retries
                   THEN /\ sleeps' = Append(sleeps, base_delay_ms * attempt)
                        /\ rpc' = "sleep"
                        /\ attempt' = attempt
                        /\ UNCHANGED <<resync_error, server>>
                   ELSE /\ sleeps' = sleeps
                        /\ LoopNext(FALSE)
                        /\ resync_error' = TRUE
                        /\ server' = "stopped"
        /\ UNCHANGED <<restate, shutdown_event>>
        /\ ResyncFrame

\* one pass of the loop body: await resync_sdk() succeeds and sets
\* resync_success, or raises an Exception, which is caught; then the loop
\* sleeps base_delay_ms * attempt when attempt < max_retries, and gives up
\* otherwise
ResyncAttempt ==
    \E ok \in BOOLEAN :
        /\ rpc = "try"
        /\ ProcessAlive
        /\ calls' = calls + 1
        /\ IF ok
           THEN /\ resync_success' = TRUE
                /\ LoopNext(TRUE)
                /\ sleeps' = sleeps
           ELSE /\ resync_success' = resync_success
                /\ IF attempt < max_retries
                   THEN /\ sleeps' = Append(sleeps, base_delay_ms * attempt)
                        /\ rpc' = "sleep"
                        /\ attempt' = attempt
                   ELSE /\ sleeps' = sleeps
                        /\ LoopNext(FALSE)
        /\ UNCHANGED <<restate, resync_error, server, shutdown_event>>
        /\ ResyncFrame

\* await asyncio.sleep(delay_ms / 1000) returns; the loop goes on
ResyncSleepDone ==
    /\ rpc = "sleep"
    /\ ProcessAlive
    /\ LoopNext(FALSE)
    /\ UNCHANGED <<restate, resync_success, sleeps, calls, resync_error, server,
                   shutdown_event>>
    /\ ResyncFrame

\* SIGINT / SIGTERM: trigger_shutdown sets shutdown_event; without the Restate
\* SDK handle_signal sets stop_event, once main() has installed it after the
\* resync loop
ShutdownSignal ==
    /\ restate # "unset"
    /\ restate = "missing" => rpc = "done"
    /\ ~shutdown_event
    /\ shutdown_event' = TRUE
    /\ UNCHANGED <<restate, rpc, attempt, resync_success, sleeps, calls,
                   resync_error, server>>
    /\ ResyncFrame

\* the server stops gracefully once shutdown_event is set and main() returns;
\* without the Restate SDK await stop_event.wait() returns
ServerStop ==
    /\ shutdown_event
    /\ ProcessAlive
    /\ server' = "stopped"
    /\ UNCHANGED <<restate, rpc, attempt, resync_success, sleeps, calls,
                   resync_error, shutdown_event>>
    /\ ResyncFrame

NextResync ==
    \/ ServerStart
    \/ ResyncThreadBegin
    \/ ResyncAttempt
    \/ ResyncSleepDone
    \/ ShutdownSignal
    \/ ServerStop

SpecResync == InitResync /\ [][NextResync]_vars

(***************************************************************************)
(* Restart of an interruptable workflow from its durable log.              *)
(***************************************************************************)
\* race iterations whose winner is decided
Decided ==
    IF Len(invs) = 0 THEN 0
    ELSE IF Last(invs).status = "cancelled" \/ pc \in {"done", "failed"}
         THEN Len(invs)
         ELSE Len(invs) - 1

\* the winner of each decided race, in order: the new input when the handler
\* invocation was cancelled, else the handler
Winners ==
    [i \in 1..Decided |-> IF invs[i].status = "cancelled" THEN "input"
                          ELSE "handler"]

InitReplay ==
    /\ pattern = "workflow"
    /\ first_turn = "user"
    /\ interruptable = TRUE
    /\ fnCalls = [k \in {FetchKey, SendKey} |-> 0]
    /\ InitRun
    /\ NoRuns
    /\ ServerOff
    /\ NoReplay
    /\ NoAgents
    /\ NoWatcher

\* the process is lost while the run is in progress and the substrate runs
\* wrapped() again from its beginning on the same context: recorded steps,
\* resolved awakeables and stored state are kept, awakeables are handed out
\* again in creation order, and everything held in memory is gone
Replay ==
    /\ pattern = "workflow"
    /\ ~replayed
    /\ pc \in {"fetch", "race"}
    /\ replayed' = TRUE
    /\ orig' = Winners
    /\ pc' = "start"
    /\ invs' = <<>>
    /\ promise' = 0
    /\ inputDone' = FALSE
    /\ awk' = 0
    /\ waits' = 0
    /\ fetches' = 0
    /\ UNCHANGED <<cfgVars, watchVars, agentVars, isoVars, resyncVars, mcpVars, chatVars, result, error, log, kv,
                   resolved, timeline, nInputs, fnCalls, stale>>

NextReplay ==
    \/ NewInput
    \/ WfStart
    \/ WfFetch
    \/ WfTaskReturn
    \/ WfTaskRaise
    \/ WfInputTaskDone
    \/ WfRaceObserve
    \/ Replay

SpecReplay == InitReplay /\ [][NextReplay]_vars

(***************************************************************************)
(* Agent descriptors (agent.py) and their registration (standalone.py).    *)
(***************************************************************************)
ProjectIds == {"p1"}
AgentIds == {"a1", "a2"}
Names == {"n1"}
Descriptions == {"d1"}
\* the entrypoint functions a caller may supply
Entrypoints == {"e1", "e2"}
\* HandlerParams values, told apart by their task_id
TaskIds == {"t1", "t2"}

\* faulty variant of create_soma_agent: project_id and agent_id are bound the
\* other way round
create_soma_agent_Swapped(project_id, agent_id, name, description, entrypoint) ==
    [project_id |-> agent_id, agent_id |-> project_id, name |-> name,
     description |-> description, _entrypoint |-> entrypoint]

\* create_soma_agent(project_id=..., agent_id=..., name=..., description=...,
\* entrypoint=...): the _SomaAgentImpl dataclass value
create_soma_agent(project_id, agent_id, name, description, entrypoint) ==
    [project_id |-> project_id, agent_id |-> agent_id, name |-> name,
     description |-> description, _entrypoint |-> entrypoint]

\* _SomaAgentImpl.entrypoint(params): await self._entrypoint(params); the
\* invocations of supplied entrypoints it makes, in order
entrypoint(self, params) == << <<self._entrypoint, params>> >>

\* Agent(agent.agent_id, agent.project_id, agent.name, agent.description)
Agent(agent) == <<agent.agent_id, agent.project_id, agent.name, agent.description>>

AgentOps == Len(agents) + Len(entrypoint_calls) + Len(add_agent_calls)

InitAgent ==
    /\ pattern = "workflow"
    /\ first_turn = "user"
    /\ interruptable = FALSE
    /\ fnCalls = [k \in {FetchKey, SendKey} |-> 0]
    /\ InitRun
    /\ NoRuns
    /\ ServerOff
    /\ NoReplay
    /\ NoAgents
    /\ NoWatcher

AgentFrame ==
    UNCHANGED <<cfgVars, watchVars, replayVars, isoVars, resyncVars, mcpVars, pc, chatVars, result, error, promise,
                inputDone, ctxVars, timeline, nInputs, invs, waits, fetches,
                fnCalls, stale>>

\* faulty variant of CreateAgent: constructing a descriptor also creates an
\* awakeable and stores its id as the listen handle
CreateAgent_Listens ==
    \E p \in ProjectIds, a \in AgentIds, n \in Names, d \in Descriptions,
       e \in Entrypoints :
        /\ AgentOps < MaxAgentOps
        /\ agents' = Append(agents,
               [args |-> [project_id |-> p, agent_id |-> a, name |-> n,
                          description |-> d, entrypoint |-> e],
                agent |-> create_soma_agent(p, a, n, d, e)])
        /\ Arm
        /\ UNCHANGED <<entrypoint_calls, add_agent_calls>>
        /\ UNCHANGED <<cfgVars, watchVars, replayVars, isoVars, resyncVars, mcpVars, pc, chatVars, result, error,
                       inputDone, log, resolved, timeline, nInputs, invs, waits,
                       fetches, fnCalls, stale>>

\* a caller constructs a descriptor
CreateAgent ==
    \E p \in ProjectIds, a \in AgentIds, n \in Names, d \in Descriptions,
       e \in Entrypoints :
        /\ AgentOps < MaxAgentOps
        /\ agents' = Append(agents,
               [args |-> [project_id |-> p, agent_id |-> a, name |-> n,
                          description |-> d, entrypoint |-> e],
                agent |-> create_soma_agent(p, a, n, d, e)])
        /\ UNCHANGED <<entrypoint_calls, add_agent_calls>>
        /\ AgentFrame

\* a caller awaits agent.entrypoint(params)
AgentEntrypoint ==
    \E i \in 1..Len(agents), t \in TaskIds :
        /\ AgentOps < MaxAgentOps
        /\ entrypoint_calls' = Append(entrypoint_calls,
               [agent |-> i, params |-> t,
                invoked |-> entrypoint(agents[i].agent, t)])
        /\ UNCHANGED <<agents, add_agent_calls>>
        /\ AgentFrame

\* the generated server registers a descriptor: add_agent(Agent(...))
RegisterAgent ==
    \E i \in 1..Len(agents) :
        /\ AgentOps < MaxAgentOps
        /\ add_agent_calls' = Append(add_agent_calls, Agent(agents[i].agent))
        /\ UNCHANGED <<agents, entrypoint_calls>>
        /\ AgentFrame

\* agent operations beside a run of the non-interruptable workflow pattern
NextAgent ==
    \/ CreateAgent
    \/ AgentEntrypoint
    \/ RegisterAgent
    \/ NewInput
    \/ WfStart
    \/ WfFetch
    \/ WfHandlerReturn

SpecAgent == InitAgent /\ [][NextAgent]_vars

\* faulty variant of McpCallStart: the method is suspended between reading the
\* request index and incrementing it, so the next method started reads the
\* same index
McpCallStart_Suspended ==
    \E c \in 1..Len(clients), method \in CalledMethods :
        LET index == clients[c].request_index
        IN  /\ clients[c].open
            /\ Len(started) < MaxCalls
            /\ clients' = clients
            /\ started' = Append(started,
                   [client |-> c, method |-> method, index |-> index,
                    key |-> StepKey(clients[c].name, method, index),
                    phase |-> "awaiting", value |-> None])
            /\ UNCHANGED <<cfgVars, watchVars, replayVars, agentVars, isoVars, resyncVars, issued, pc, chatVars, result,
                           error, promise, inputDone, ctxVars, timeline, nInputs,
                           invs, waits, fetches, fnCalls, stale>>

\* a wrapper method starts: up to its first await it reads the request index,
\* increments it and builds the step key
McpCallStart ==
    \E c \in 1..Len(clients), method \in CalledMethods :
        LET index == clients[c].request_index
        IN  /\ clients[c].open
            /\ Len(started) < MaxCalls
            /\ clients' = [clients EXCEPT ![c].request_index = index + 1]
            /\ started' = Append(started,
                   [client |-> c, method |-> method, index |-> index,
                    key |-> StepKey(clients[c].name, method, index),
                    phase |-> "awaiting", value |-> None])
            /\ UNCHANGED <<cfgVars, watchVars, replayVars, agentVars, isoVars, resyncVars, issued, pc, chatVars, result,
                           error, promise, inputDone, ctxVars, timeline, nInputs,
                           invs, waits, fetches, fnCalls, stale>>

\* the durable step a started method awaits completes and the method returns
McpCallFinish ==
    \E j \in 1..Len(started) :
        LET call == started[j]
            fnResult == model_dump(SessionResponse(call.method))
        IN  /\ call.phase = "awaiting"
            /\ log' = RunLog(call.key, fnResult)
            /\ fnCalls' = RunCalls(call.key)
            /\ started' = [started EXCEPT
                   ![j].phase = "returned",
                   ![j].value = model_validate(ResultType(call.method),
                                               RunResult(call.key, fnResult))]
            /\ UNCHANGED <<cfgVars, watchVars, replayVars, agentVars, isoVars, resyncVars, clients, issued, pc, chatVars,
                           result, error, promise, inputDone, kv, awk, resolved,
                           timeline, nInputs, invs, waits, fetches, stale>>

NextMcpConcurrent ==
    \/ McpOpen
    \/ McpCallStart
    \/ McpCallFinish

SpecMcpConcurrent == InitMcp /\ [][NextMcpConcurrent]_vars

(***************************************************************************)
(* Development server watcher (standalone.py, watch_and_regenerate).       *)
(***************************************************************************)
\* the paths a batch of changes may name
Paths == {"functions/a.py", "agents/b.py", "functions/notes.txt"}

\* path.endswith(".py") and not path.endswith("__pycache__")
IsPy(path) == path \in {"functions/a.py", "agents/b.py"}

\* how kill_server_process_group can end for a live process: the process exits
\* within 5 s of SIGTERM, or within 2 s of SIGKILL, or the final wait times out
\* (TimeoutExpired is passed over) with the process still there
KillOutcomes == {"sigterm", "sigkill", "timeout"}

InitWatch ==
    /\ PatternOff
    /\ NoRuns
    /\ ServerOff
    /\ NoReplay
    /\ NoAgents
    /\ NoWatcher

WatchFrame ==
    UNCHANGED <<cfgVars, replayVars, agentVars, isoVars, resyncVars, mcpVars, pc, chatVars, result, error,
                promise, inputDone, ctxVars, timeline, nInputs, invs, waits,
                fetches, fnCalls, stale>>

\* start_server(): a new process in its own process group
start_server(ps) == Append(ps, "alive")

\* kill_server_process_group(proc): nothing is done to a process that has
\* exited; a live one is sent SIGTERM, then SIGKILL, and waited for
kill_server_process_group(ps, proc, outcome) ==
    IF ps[proc] = "dead" THEN ps
    ELSE IF outcome = "timeout" THEN ps
    ELSE [ps EXCEPT ![proc] = "dead"]

\* restart_server(): kill the process server_process refers to, wait for the
\* socket and the port, then start a new one
restart_server(outcome) ==
    /\ procs' = start_server(IF server_process # 0
                             THEN kill_server_process_group(procs, server_process,
                                                            outcome)
                             ELSE procs)
    /\ server_process' = Len(procs) + 1

\* lines 799-944: standalone.py is generated and the server started
WatchStart ==
    /\ watcher = "off"
    /\ watcher' = "watching"
    /\ procs' = start_server(procs)
    /\ server_process' = Len(procs) + 1
    /\ UNCHANGED <<batches, restarts>>
    /\ WatchFrame

\* lines 975-990: watch() yields a batch of changes; the first .py path in it
\* causes one regenerate and one restart, and the rest of the batch is skipped
WatchBatch ==
    \E changes \in (SUBSET Paths) \ {{}}, outcome \in KillOutcomes :
        /\ watcher = "watching"
        /\ batches < MaxBatches
        /\ batches' = batches + 1
        /\ IF \E path \in changes : IsPy(path)
           THEN /\ restarts' = Append(restarts, batches + 1)
                /\ restart_server(outcome)
           ELSE UNCHANGED <<restarts, procs, server_process>>
        /\ watcher' = watcher
        /\ WatchFrame

\* a server process exits by itself
ServerProcessExit ==
    \E p \in 1..Len(procs) :
        /\ procs[p] = "alive"
        /\ procs' = [procs EXCEPT ![p] = "dead"]
        /\ UNCHANGED <<watcher, server_process, batches, restarts>>
        /\ WatchFrame

\* handle_signal (SIGINT, SIGTERM, KeyboardInterrupt): kill the server and exit
WatchShutdown ==
    \E outcome \in KillOutcomes :
        /\ watcher = "watching"
        /\ watcher' = "exited"
        /\ procs' = IF server_process # 0
                    THEN kill_server_process_group(procs, server_process, outcome)
                    ELSE procs
        /\ UNCHANGED <<server_process, batches, restarts>>
        /\ WatchFrame

NextWatch ==
    \/ WatchStart
    \/ WatchBatch
    \/ ServerProcessExit
    \/ WatchShutdown

SpecWatch == InitWatch /\ [][NextWatch]_vars

(***************************************************************************)
(* Properties.                                                             *)
(***************************************************************************)
\* the handler of the chat-termination scenario: it sent a message and did not
\* call on_goal_achieved in its first and second invocation, and called
\* on_goal_achieved in its third
C1_Handler ==
    /\ pattern = "chat"
    /\ Len(invs) >= 3
    /\ invs[1].sent >= 1 /\ invs[1].ngoals = 0
    /\ invs[2].sent >= 1 /\ invs[2].ngoals = 0
    /\ invs[3].ngoals >= 1

\* C1 as stated: with that handler the pattern returns X (the value passed to
\* on_goal_achieved) after exactly three handler invocations and exactly two
\* waits on new-input awakeables, and there is no fourth invocation
C1_AsStated ==
    C1_Handler =>
        /\ Len(invs) = 3
        /\ invs[3].status = "returned" =>
              /\ pc = "done"
              /\ result = invs[3].lastGoal
              /\ waits = 2

\* C1 as amended: with that handler there are exactly three handler invocations
\* (and fetch_history steps); when the third returns the loop has ended with X
\* recorded, after exactly two waits between turns plus, with
\* first_turn = "user", the wait before the first turn; X is returned, except
\* that X = None ends in the "Goal not achieved" error
C1_ChatTermination ==
    C1_Handler =>
        /\ Len(invs) = 3
        /\ fetches = 3
        /\ invs[3].status = "returned" =>
              /\ pc \in {"done", "failed"}
              /\ goal_output = invs[3].lastGoal
              /\ invs[3].lastGoal # None => pc = "done" /\ result = invs[3].lastGoal
              /\ pc = "failed" => invs[3].lastGoal = None /\ error = "Goal not achieved"
              /\ waits = 2 + (IF first_turn = "user" THEN 1 ELSE 0)

C1_Witness ==
    /\ C1_Handler
    /\ invs[3].status = "returned"
    /\ first_turn = "user"
    /\ pc = "done"
    /\ result = "X"
    /\ waits = 3

C4_NonInterruptable ==
    (pattern = "workflow" /\ ~interruptable) =>
        /\ Len(invs) <= 1
        /\ fetches = Len(invs)
        /\ waits = 0
        /\ pc # "race"
        /\ ~inputDone
        /\ awk <= 1
        /\ \A i \in 1..Len(invs) :
              /\ invs[i].status # "cancelled"
              /\ invs[i].status = "returned" => pc = "done" /\ result = invs[i].value
        /\ pc = "done" => Len(invs) = 1 /\ invs[1].status = "returned"

C4_Witness ==
    /\ pattern = "workflow"
    /\ ~interruptable
    /\ pc = "done"
    /\ invs[1].late
    /\ nInputs >= 2
    /\ result = "Y"

\* C5: once the pattern has created its first awakeable, the listen handle
\* stored under "new_input_promise" is the id of the most recently created one
C5_LatestListenHandle ==
    pc # "start" => awk >= 1 /\ kv[NEW_INPUT_PROMISE] = awk

C5_Witness ==
    /\ awk >= 3
    /\ kv[NEW_INPUT_PROMISE] = awk
    /\ 1 \in resolved
    /\ 2 \in resolved

\* the pattern is blocked on an awakeable future
Waiting == pc \in {"wait_first", "wait_next"} \/ (pc = "race" /\ ~inputDone)

\* C6: a wait is always on the most recently created awakeable, and while that
\* one is unresolved no resolution of an older one lets the pattern leave the
\* wait (no turn starts, the race is not decided for the input)
C6_SingleHonor ==
    Waiting =>
        /\ promise = awk
        /\ awk \notin resolved =>
              /\ ~ENABLED ChatFirstInput
              /\ ~ENABLED ChatNextInput
              /\ ~ENABLED WfInputTaskDone

C6_Witness ==
    /\ pc = "wait_next"
    /\ awk = 2
    /\ 1 \in stale
    /\ 1 \in resolved
    /\ 2 \notin resolved

\* C7: in every chat turn the history given to the handler is the timeline as
\* it was when that turn's fetch_history step was issued
C7_FreshHistory ==
    pattern = "chat" =>
        \A i \in 1..Len(invs) : invs[i].hist = invs[i].seen

\* C10: wrapped() never raises the "Goal not achieved" error
C10_GoalNotAchievedUnreachable == error # "Goal not achieved"


\* C11: a chat pattern that returns, returns the value its handler passed to
\* on_goal_achieved (the last call's); a workflow pattern that returns, returns
\* the value its handler returned; a pattern invocation either returns or
\* fails, never both, and once it has done so its outcome never changes
C11_PatternOutcome ==
    [][ /\ pc' = "done" =>
              /\ error' = "none"
              /\ Last(invs').status = "returned"
              /\ result' = IF pattern = "chat" THEN Last(invs').lastGoal
                                                ELSE Last(invs').value
        /\ pc' = "failed" => error' # "none" /\ result' = None
        /\ error' # "none" => pc' = "failed"
        /\ pc \in {"done", "failed"} =>
              pc' = pc /\ result' = result /\ error' = error ]_vars

C11_Witness ==
    /\ pattern = "chat"
    /\ pc = "done"
    /\ Len(invs) = 2
    /\ invs[2].ngoals = 2
    /\ invs[2].lastGoal = "Y"
    /\ result = "Y"
    /\ nInputs = MaxInputs

\* awaits of an awakeable future begun by the time the i-th handler invocation
\* runs
WaitsAt(i) ==
    IF pattern = "chat" THEN (i - 1) + (IF first_turn = "user" THEN 1 ELSE 0)
    ELSE IF interruptable THEN i ELSE 0

\* C12: a handler invocation that raised is the last one; the pattern fails
\* with the handler's exception (in an interruptable workflow as soon as
\* asyncio.wait returns, whatever the awakeable does meanwhile), returns
\* nothing, and creates and awaits no awakeable after the raise
C12_HandlerExceptionPropagates ==
    [][ /\ \A i \in 1..Len(invs') :
              invs'[i].status = "raised" =>
                  /\ i = Len(invs')
                  /\ awk' = invs'[i].awk
                  /\ waits' = WaitsAt(i)
                  /\ pc' \in {"failed", "race"}
                  /\ pc' = "failed" => error' = "HandlerError" /\ result' = None
                  /\ pc' = "race" => pattern = "workflow" /\ interruptable
        /\ (Len(invs) > 0 /\ Cur.status = "raised" /\ pc = "race"
             /\ pc' # "race") =>
                  pc' = "failed" /\ error' = "HandlerError" ]_vars

C12_Witness ==
    /\ pattern = "workflow"
    /\ interruptable
    /\ pc = "failed"
    /\ error = "HandlerError"
    /\ Len(invs) = 2
    /\ invs[1].status = "cancelled"
    /\ invs[2].status = "raised"
    /\ invs[2].awk \in resolved

\* C13: every send_message call a handler makes posts its message to the task
\* API exactly once
C13_DurableSendMessage ==
    \A i \in 1..Len(invs) : invs[i].posted = invs[i].sent

\* C14: a recorded durable step is never removed from the run log or changed,
\* and its function is never executed again: after a handler invocation that
\* completed a send_message step was cancelled, the step is still recorded and
\* the re-invoked handler's call returns the record without posting
C14_CancellationKeepsSteps ==
    [][ /\ \A k \in DOMAIN log :
              /\ k \in DOMAIN log'
              /\ log'[k] = log[k]
              /\ fnCalls'[k] = fnCalls[k]
        /\ \A i, j \in 1..Len(invs') :
              (i < j /\ invs'[i].posted >= 1) =>
                  /\ SendKey \in DOMAIN log'
                  /\ invs'[j].posted = 0 ]_vars

C14_Witness ==
    /\ pattern = "workflow"
    /\ interruptable
    /\ Len(invs) = 2
    /\ invs[1].status = "cancelled"
    /\ invs[1].posted = 1
    /\ invs[2].sent >= 1
    /\ invs[2].posted = 0
    /\ fnCalls[SendKey] = 1
    /\ Recorded(SendKey)

\* handler invocations the race cancelled
Interruptions == Cardinality({i \in 1..Len(invs) : invs[i].status = "cancelled"})

\* C15: an interruptable workflow returns only the value of a handler
\* invocation that completed, after exactly (interruptions + 1) invocations;
\* with finitely many new-input events and handler invocations that complete
\* unless cancelled, the workflow eventually ends: it returns, or fails with
\* the exception of a handler invocation that raised
C15_WorkflowTermination ==
    /\ [](pc = "done" =>
              /\ Last(invs).status = "returned"
              /\ result = Last(invs).value
              /\ Len(invs) = Interruptions + 1)
    /\ [](pc = "failed" =>
              /\ Last(invs).status = "raised"
              /\ Len(invs) = Interruptions + 1)
    /\ <>(pc \in {"done", "failed"})

C15_Witness ==
    /\ pattern = "workflow"
    /\ interruptable
    /\ pc = "done"
    /\ Len(invs) = 2
    /\ Interruptions = 1
    /\ nInputs = 1
    /\ result = "Y"

\* wrapped calls made on client c before the j-th call of the run
CallsBefore(c, j) == Cardinality({i \in 1..(j - 1) : issued[i].client = c})

\* C8: on one SomaMcpClient the n-th wrapped call (from 0, over all operations)
\* is issued under the key "mcp-{client_name}-{operationName}-index-{n}", so
\* the keys of one client are pairwise distinct
C8_ClientKeyIndex ==
    /\ \A j \in 1..Len(issued) :
          issued[j].key = <<"mcp", clients[issued[j].client].name,
                            OperationName(issued[j].method), "index",
                            CallsBefore(issued[j].client, j)>>
    /\ \A i, j \in 1..Len(issued) :
          (i # j /\ issued[i].client = issued[j].client) =>
              issued[i].key # issued[j].key
    /\ \A c \in 1..Len(clients) :
          clients[c].request_index = CallsBefore(c, Len(issued) + 1)

C8_Witness ==
    /\ Len(issued) = 3
    /\ \A j \in 1..3 : issued[j].client = 1
    /\ issued[1].method = "list_tools" /\ issued[1].key[5] = 0
    /\ issued[2].method = "call_tool" /\ issued[2].key[5] = 1
    /\ issued[3].method = "list_tools" /\ issued[3].key[5] = 2

\* C9: within one run no two wrapped calls are issued under the same step key
C9_RunKeyUniqueness ==
    \A i, j \in 1..Len(issued) : i # j => issued[i].key # issued[j].key


\* C16: when the session operation of a wrapped call raises, the wrapper method
\* raises and returns no result, and the operation was executed exactly once
\* for that call; no call executes its operation more than once
C16_McpCallFailure ==
    \A j \in 1..Len(issued) :
        /\ issued[j].attempts <= 1
        /\ issued[j].fnRaised =>
              /\ issued[j].attempts = 1
              /\ issued[j].outcome = "raised"
              /\ issued[j].value = None

C16_Witness ==
    /\ Len(issued) = 2
    /\ issued[1].outcome = "returned"
    /\ issued[2].method = "call_tool"
    /\ issued[2].inScope
    /\ issued[2].fnRaised
    /\ issued[2].outcome = "raised"
    /\ fnCalls[issued[2].key] = 1

\* C17: a client is yielded with its session initialized, so every wrapper call
\* inside the scope finds an initialized session; however the scope is left,
\* the session is closed afterwards; a wrapper call made after the scope has
\* exited finds the session closed, and if it executes its operation it raises
C17_ScopedSession ==
    /\ \A c \in 1..Len(clients) :
          /\ clients[c].open => clients[c].session = "initialized"
          /\ ~clients[c].open => clients[c].session = "closed"
    /\ \A j \in 1..Len(issued) :
          /\ issued[j].inScope => issued[j].session = "initialized"
          /\ ~issued[j].inScope =>
                /\ issued[j].session = "closed"
                /\ issued[j].attempts >= 1 => issued[j].outcome = "raised"

C17_Witness ==
    /\ Len(clients) = 1
    /\ ~clients[1].open
    /\ Len(issued) = 2
    /\ issued[1].inScope /\ issued[1].outcome = "returned"
    /\ ~issued[2].inScope
    /\ issued[2].attempts = 1
    /\ issued[2].outcome = "raised"


\* C18: with two concurrent runs of the same wrapped chat pattern, a step of
\* one run (on_goal_achieved included) changes nothing of the other run; a run
\* is marked achieved only by its own handler's on_goal_achieved call and
\* returns only the output its own handler passed last; the listen handle and
\* the awaited awakeable of a run are awakeables of its own context
C18_InstanceIsolation ==
    [][ /\ \E r \in RunIds : \A q \in RunIds \ {r} : runs'[q] = runs[q]
        /\ \A r \in RunIds :
              /\ runs'[r].achieved => runs'[r].called
              /\ runs'[r].goal_output = runs'[r].lastGoal
              /\ runs'[r].pc = "done" =>
                    runs'[r].called /\ runs'[r].result = runs'[r].lastGoal
              /\ runs'[r].kv = IF runs'[r].awk = 0 THEN <<>>
                               ELSE AwakeableId(r, runs'[r].awk)
              /\ runs'[r].promise = runs'[r].kv
              /\ \A id \in runs'[r].resolved : id[1] = r ]_vars

C18_Witness ==
    /\ runs # <<>>
    /\ runs[1].pc = "done"
    /\ runs[1].result = "X"
    /\ runs[2].pc = "wait"
    /\ runs[2].turns = 2
    /\ ~runs[2].achieved
    /\ runs[2].goal_output = None


\* resync attempts that failed so far
FailedAttempts == calls - (IF resync_success THEN 1 ELSE 0)

\* C19: the resync makes at most 10 attempts and none after a successful one;
\* after the k-th failed attempt, k in 1..9, it sleeps 500 * k ms, and it does
\* not sleep after the 10th
C19_ResyncRetry ==
    [][ /\ calls' <= 10
        /\ resync_success => calls' = calls /\ sleeps' = sleeps
        /\ Len(sleeps') = IF FailedAttempts' < 9 THEN FailedAttempts' ELSE 9
        /\ \A k \in 1..Len(sleeps') : sleeps'[k] = 500 * k ]_vars

C19_Witness ==
    /\ restate = "missing"
    /\ rpc = "done"
    /\ ~resync_success
    /\ calls = 10
    /\ Len(sleeps) = 9
    /\ sleeps[9] = 4500

\* all 10 resync attempts have failed
ResyncExhausted == rpc = "done" /\ calls = 10 /\ ~resync_success

\* C20: no exception leaves the resync routine; once the resync has ended it
\* makes no further attempt and sleeps no more; the server stops only after
\* shutdown was triggered, so after all 10 attempts failed it is still running
\* unless shutdown was triggered
C20_ResyncExhaustion ==
    [][ /\ resync_error' = FALSE
        /\ rpc = "done" => rpc' = "done" /\ calls' = calls /\ sleeps' = sleeps
        /\ server' = "stopped" => shutdown_event'
        /\ (ResyncExhausted' /\ restate' = "available") =>
              server' = "running" \/ shutdown_event' ]_vars

C20_Witness ==
    /\ ResyncExhausted
    /\ restate = "available"
    /\ server = "running"
    /\ ~shutdown_event
    /\ ~resync_error
    /\ Len(sleeps) = 9

\* handler invocations in flight: running, or cancelled and not yet stopped
InFlight == {i \in 1..Len(invs) :
                \/ invs[i].status = "running"
                \/ invs[i].status = "cancelled" /\ ~invs[i].stopped}

\* C24: a cancelled handler invocation has stopped by the time the loop holds
\* the next awakeable (so before the next fetch and invocation), a stopped
\* invocation has performed nothing after its cancellation, and at most one
\* handler invocation is in flight at any time
C24_NoOverlappingInvocations ==
    (pattern = "workflow" /\ interruptable) =>
        /\ \A i \in 1..Len(invs) :
              (invs[i].status = "cancelled" /\ awk > invs[i].awk) =>
                  invs[i].stopped
        /\ Cardinality(InFlight) <= 1

\* C25: over a whole interruptable run the function of every keyed durable
\* step is executed at most once, a step in flight at a cancellation included
C25_AtMostOnceUnderCancellation ==
    (pattern = "workflow" /\ interruptable) =>
        \A k \in DOMAIN fnCalls : fnCalls[k] <= 1

\* C23: after an interruption the history given to the next handler invocation
\* is the timeline as it was when the re-issued fetch_history step ran, and it
\* holds the input that caused the interruption
C23_HistoryAfterInterruption ==
    (pattern = "workflow" /\ interruptable) =>
        \A i \in 2..Len(invs) :
            /\ invs[i].hist = invs[i].seen
            /\ CountU(invs[i].hist) >= 1

\* C27: with first_turn = "user" no fetch_history step is issued and no handler
\* is invoked before the start awakeable has resolved (the pattern waits on it
\* first); with first_turn = "agent" the first fetch and the first handler
\* invocation happen without any wait, whether or not that awakeable resolved
C27_ChatInitialState ==
    pattern = "chat" =>
        /\ first_turn = "user" =>
              /\ pc \in {"start", "wait_first"} => fetches = 0 /\ invs = <<>>
              /\ pc = "wait_first" => promise = 1 /\ waits = 1
              /\ (fetches > 0 \/ Len(invs) > 0) => 1 \in resolved
        /\ first_turn = "agent" =>
              /\ pc # "wait_first"
              /\ (pc = "fetch" /\ Len(invs) = 0) => waits = 0 /\ ENABLED ChatFetch
              /\ (pc = "handler" /\ Len(invs) = 1) => waits = 0 /\ fetches = 1

C27_Witness ==
    /\ pattern = "chat"
    /\ first_turn = "user"
    /\ pc = "handler"
    /\ Len(invs) = 1
    /\ waits = 1
    /\ nInputs = 1
    /\ 1 \in resolved
    /\ invs[1].hist = <<"u">>

\* C28: between consecutive chat handler invocations exactly one awakeable is
\* created, after the earlier invocation returned; its id is the stored listen
\* handle and the awakeable awaited, and it has resolved before the later
\* invocation starts; after a turn in which the goal was achieved no awakeable
\* is created, nothing is awaited and the handler is not invoked again
C28_ChatReArm ==
    pattern = "chat" =>
        /\ \A i \in 1..Len(invs) :
              /\ invs[i].awk = i
              /\ i >= 2 => i \in resolved /\ invs[i - 1].status = "returned"
        /\ pc = "wait_next" =>
              /\ Last(invs).status = "returned"
              /\ awk = Len(invs) + 1
              /\ promise = awk
              /\ kv[NEW_INPUT_PROMISE] = awk
              /\ waits = WaitsAt(Len(invs) + 1)
        /\ (pc = "fetch" /\ Len(invs) >= 1) =>
              awk = Len(invs) + 1 /\ awk \in resolved
        /\ pc = "handler" => awk = Len(invs)
        /\ (achieved /\ Len(invs) > 0 /\ Last(invs).status = "returned") =>
              /\ pc \in {"done", "failed"}
              /\ awk = Len(invs)
              /\ waits = WaitsAt(Len(invs))

C28_Witness ==
    /\ pattern = "chat"
    /\ first_turn = "agent"
    /\ pc = "done"
    /\ achieved
    /\ Len(invs) = 3
    /\ awk = 3
    /\ waits = 2
    /\ resolved = {2, 3}

\* C29: every workflow iteration creates and stores a new awakeable before its
\* fetch_history step is issued, and the handler is invoked with the result of
\* that step; a non-interruptable workflow writes the listen handle exactly
\* once
C29_WorkflowStepOrder ==
    pattern = "workflow" =>
        /\ fetches = Len(invs)
        /\ pc # "start" => awk >= 1
        /\ pc = "fetch" =>
              /\ awk = fetches + 1
              /\ promise = awk
              /\ kv[NEW_INPUT_PROMISE] = awk
        /\ \A i \in 1..Len(invs) :
              /\ invs[i].awk = i
              /\ Recorded(FetchKey)
              /\ invs[i].hist = log[FetchKey]
        /\ (~interruptable /\ pc # "start") =>
              awk = 1 /\ kv[NEW_INPUT_PROMISE] = 1

C29_Witness ==
    /\ pattern = "workflow"
    /\ ~interruptable
    /\ pc = "handler"
    /\ fetches = 1
    /\ awk = 1
    /\ kv[NEW_INPUT_PROMISE] = 1
    /\ nInputs = MaxInputs

\* C30: when handler_task has completed with a return value, the interruptable
\* workflow returns that value as soon as asyncio.wait returns, without
\* cancelling or restarting the handler (also when the awakeable had not
\* resolved); from then on the pending wait never completes and no awakeable is
\* created, no fetch is issued and no handler is invoked
C30_HandlerWins ==
    [][ (pattern = "workflow" /\ interruptable) =>
          /\ (pc = "race" /\ Cur.status = "returned" /\ pc' # "race") =>
                /\ pc' = "done"
                /\ result' = Cur.value
                /\ invs' = invs
                /\ UNCHANGED <<awk, kv, fetches, waits, inputDone>>
          /\ pc = "done" =>
                /\ pc' = "done"
                /\ result' = result
                /\ Len(invs') = Len(invs)
                /\ UNCHANGED <<awk, kv, fetches, waits, inputDone>> ]_vars

C30_Witness ==
    /\ pattern = "workflow"
    /\ interruptable
    /\ pc = "done"
    /\ Len(invs) = 1
    /\ ~invs[1].late
    /\ ~inputDone
    /\ awk = 1
    /\ 1 \in resolved
    /\ result = "X"

\* C21: the agent create_soma_agent returns carries the four arguments
\* project_id, agent_id, name and description unchanged, and every
\* entrypoint(params) call on it invokes the supplied entrypoint exactly once,
\* with the same params
C21_CreateSomaAgent ==
    /\ \A i \in 1..Len(agents) :
          /\ agents[i].agent.project_id = agents[i].args.project_id
          /\ agents[i].agent.agent_id = agents[i].args.agent_id
          /\ agents[i].agent.name = agents[i].args.name
          /\ agents[i].agent.description = agents[i].args.description
    /\ \A j \in 1..Len(entrypoint_calls) :
          LET call == entrypoint_calls[j] IN
          /\ Len(call.invoked) = 1
          /\ call.invoked[1] = <<agents[call.agent].args.entrypoint, call.params>>

C21_Witness ==
    /\ Len(agents) = 2
    /\ agents[1].args.agent_id = "a1" /\ agents[1].args.entrypoint = "e1"
    /\ agents[2].args.agent_id = "a2" /\ agents[2].args.entrypoint = "e2"
    /\ Len(entrypoint_calls) = 2
    /\ entrypoint_calls[1].agent = 2 /\ entrypoint_calls[1].invoked = << <<"e2", "t1">> >>
    /\ entrypoint_calls[2].agent = 1 /\ entrypoint_calls[2].invoked = << <<"e1", "t2">> >>

C26_ReplayDeterminism ==
    replayed =>
        \A i \in 1..Min(Len(orig), Decided) : Winners[i] = orig[i]

\* C32: on_goal_achieved does not stop the handler, which can still send a
\* message after it; a turn in which the handler called it, once or several
\* times, is the last turn, and the pattern then returns the value of the last
\* call without any error
C32_GoalCallback ==
    pattern = "chat" =>
        /\ (pc = "handler" /\ Running /\ Cur.ngoals >= 1
             /\ StepsOf(Cur) < MaxHandlerSteps) => ENABLED ChatHandlerSend
        /\ \A i \in 1..Len(invs) :
              (invs[i].ngoals >= 1 /\ invs[i].status = "returned") =>
                  /\ i = Len(invs)
                  /\ pc = "done"
                  /\ result = invs[i].lastGoal
                  /\ error = "none"

\* C33: the chat pattern is never left waiting for a further new-input event
\* while an input that arrived during the last handler invocation has not been
\* given to any turn
C33_NoLostInput ==
    pattern = "chat" =>
        ~(/\ pc = "wait_next"
          /\ ~Awaited
          /\ nInputs > CountU(Last(invs).seen))

\* the race is observed with both handler_task and input_task done
Tie ==
    /\ pattern = "workflow"
    /\ interruptable
    /\ pc = "race"
    /\ inputDone
    /\ HandlerTaskDone

\* C34 as stated: when the race is observed with both tasks done, the history
\* the returning handler invocation saw lacks the input that resolved the
\* awakeable
C34_AsStated ==
    (Tie /\ Cur.status = "returned") => CountU(Cur.hist) < nInputs

\* C34 as amended: when the race is observed with both tasks done, the handler
\* wins: its result is returned (its exception raised) and nothing is
\* cancelled or restarted; the history that invocation saw holds no input that
\* arrived after its fetch_history step, so none that arrived while it ran
C34_RaceTieBreak ==
    [][ (Tie /\ pc' # "race") =>
          /\ Cur.status = "returned" => pc' = "done" /\ result' = Cur.value
          /\ Cur.status = "raised" => pc' = "failed" /\ error' = "HandlerError"
          /\ invs' = invs
          /\ UNCHANGED <<awk, kv, fetches, waits>>
          /\ CountU(Cur.hist) <= CountU(Cur.seen)
          /\ Cur.late => CountU(Cur.hist) < nInputs ]_vars

C34_Witness ==
    /\ pattern = "workflow"
    /\ interruptable
    /\ pc = "done"
    /\ inputDone
    /\ Len(invs) = 1
    /\ invs[1].status = "returned"
    /\ invs[1].late
    /\ invs[1].hist = <<>>
    /\ nInputs = 1
    /\ result = "Y"

C36_FailedCallConsumesIndex ==
    \A j \in 1..Len(issued) :
        issued[j].outcome = "raised" =>
            /\ clients[issued[j].client].request_index > issued[j].key[5]
            /\ \A k \in (j + 1)..Len(issued) :
                  issued[k].client = issued[j].client =>
                      /\ issued[k].key[5] > issued[j].key[5]
                      /\ CallsBefore(issued[j].client, k)
                           = CallsBefore(issued[j].client, j) + 1 =>
                             issued[k].key[5] = issued[j].key[5] + 1

C36_Witness ==
    /\ Len(issued) = 3
    /\ issued[1].fnRaised
    /\ issued[2].client # issued[1].client
    /\ issued[2].key = issued[1].key
    /\ issued[2].attempts = 0
    /\ issued[2].outcome = "raised"
    /\ issued[3].client = issued[2].client
    /\ issued[3].key[5] = 1
    /\ issued[3].outcome = "returned"

\* wrapper methods started on client c before the j-th started method
StartedBefore(c, j) == Cardinality({i \in 1..(j - 1) : started[i].client = c})

\* C35: wrapper methods of one client that run concurrently obtain the indices
\* 0, 1, ..., m-1 in the order in which they were started, whichever of them
\* are still awaiting their step, so no two of them obtain the same index
C35_ConcurrentCallIndices ==
    /\ \A j \in 1..Len(started) :
          started[j].index = StartedBefore(started[j].client, j)
    /\ \A i, j \in 1..Len(started) :
          (i # j /\ started[i].client = started[j].client) =>
              started[i].index # started[j].index
    /\ \A c \in 1..Len(clients) :
          clients[c].request_index = StartedBefore(c, Len(started) + 1)

C35_Witness ==
    /\ Len(started) = 3
    /\ \A j \in 1..3 : started[j].client = 1 /\ started[j].index = j - 1
    /\ started[1].phase = "awaiting"
    /\ started[2].phase = "awaiting"
    /\ started[3].phase = "returned"

\* server processes that have not exited
Alive == {p \in 1..Len(procs) : procs[p] = "alive"}

\* C37: restart_server starts a server process only when the previous one has
\* exited, so at most one server process started by the watcher is alive at
\* any time; every batch of changes causes at most one regenerate-and-restart
C37_DevServerRestart ==
    /\ Cardinality(Alive) <= 1
    /\ Len(restarts) <= batches
    /\ \A i, j \in 1..Len(restarts) : i < j => restarts[i] < restarts[j]
    /\ Len(procs) = Len(restarts) + (IF watcher = "off" THEN 0 ELSE 1)
====
